---- MODULE Spec2Model ----
(***************************************************************************)
(* LayoutSystem::engrave (src/system.rs): the constraint-based layout      *)
(* resolver.  Coordinates are integers in units of 1/Scale stave space.    *)
(* Indices into the grid-line and block arrays are 0-based as in the code. *)
(***************************************************************************)
EXTENDS Integers, Sequences, FiniteSets, TLC

\* ------------------------------------------------------------------------
\* Arithmetic helpers
\* ------------------------------------------------------------------------

Abs(x) == IF x < 0 THEN -x ELSE x

Max2(a, b) == IF a >= b THEN a ELSE b

MinOf(S) == CHOOSE x \in S : \A y \in S : x <= y

MaxOf(S) == CHOOSE x \in S : \A y \in S : x >= y

\* The function f over 1..n as an explicit tuple of its values.
Vec(f) == f \o <<>>

RECURSIVE SumTo(_, _)
SumTo(f, n) == IF n = 0 THEN 0 ELSE f[n] + SumTo(f, n - 1)

RECURSIVE ProdTo(_, _)
ProdTo(f, n) == IF n = 0 THEN 1 ELSE f[n] * ProdTo(f, n - 1)

\* ------------------------------------------------------------------------
\* The linear constraint solver (cassowary::Solver) as engrave uses it.
\*
\* A constraint is a record
\*   [subj, k, c, div, rel, strength]
\* standing for   (SUM_u k[u] * u  +  c) / div   rel   0
\* over the unknowns 1..n, where the expression is (left side - right side)
\* of the relation the code builds, subj is the unknown on its left side,
\* rel is "EQ", "GE" or "LE" and strength is "REQUIRED", "STRONG" or "WEAK".
\* The solver returns a solution that satisfies every REQUIRED constraint
\* and minimises the strength-weighted sum of the violations of the others
\* (a STRONG violation outweighs any WEAK one); among equally good solutions
\* a constraint added earlier is kept in preference to one added later, and
\* an unknown that nothing determines is 0.
\* ------------------------------------------------------------------------

Strengths == {"REQUIRED", "STRONG", "WEAK"}

\* The expression of constraint e rewritten over the unknowns that are still
\* free in the elimination state st, scaled by a positive factor.
Subst(st, e, n) ==
    LET used == {u \in st.basic : e.k[u] # 0}
        M    == ProdTo([u \in 1..n |-> IF u \in used THEN st.d[u] ELSE 1], n)
    IN  [k |-> Vec([v \in 1..n |->
                  IF v \in st.basic THEN 0
                  ELSE e.k[v] * M
                       + SumTo([u \in 1..n |->
                                  IF u \in used
                                  THEN e.k[u] * (M \div st.d[u]) * st.k[u][v]
                                  ELSE 0], n)]),
         c |-> e.c * M
               + SumTo([u \in 1..n |->
                          IF u \in used
                          THEN e.k[u] * (M \div st.d[u]) * st.c[u]
                          ELSE 0], n)]

RECURSIVE Gcd(_, _)
Gcd(a, b) == IF b = 0 THEN a ELSE Gcd(b, a % b)

RECURSIVE GcdTo(_, _)
GcdTo(f, n) == IF n = 0 THEN 0 ELSE Gcd(Abs(f[n]), GcdTo(f, n - 1))

\* The row  d * u = SUM k[v] * v + c  in lowest terms.
Reduced(d, k, c, n) ==
    LET g == Gcd(d, Gcd(Abs(c), GcdTo(k, n)))
    IN  [d |-> d \div g, k |-> Vec([v \in 1..n |-> k[v] \div g]), c |-> c \div g]

\* Make the unknown p basic: st.d[p] * p = SUM st.k[p][v] * v + st.c[p],
\* from the expression e = 0 (e over free unknowns), and remove p from the
\* rows of the other basic unknowns.
Pivot(st, e, p, n) ==
    LET a    == e.k[p]
        sgn  == IF a > 0 THEN -1 ELSE 1
        own  == Reduced(Abs(a),
                        Vec([v \in 1..n |-> IF v = p THEN 0 ELSE sgn * e.k[v]]),
                        sgn * e.c, n)
        hit  == {u \in st.basic : st.k[u][p] # 0}
        row  == Vec([u \in 1..n |->
                   IF u = p THEN own
                   ELSE IF u \in hit
                        THEN Reduced(st.d[u] * own.d,
                                     Vec([v \in 1..n |->
                                        IF v = p THEN 0
                                        ELSE st.k[u][v] * own.d + st.k[u][p] * own.k[v]]),
                                     st.c[u] * own.d + st.k[u][p] * own.c, n)
                        ELSE [d |-> st.d[u], k |-> st.k[u], c |-> st.c[u]]])
    IN  [basic |-> st.basic \cup {p},
         d |-> Vec([u \in 1..n |-> row[u].d]),
         k |-> Vec([u \in 1..n |-> row[u].k]),
         c |-> Vec([u \in 1..n |-> row[u].c])]

EmptyTableau(n) ==
    [basic |-> {},
     d |-> Vec([u \in 1..n |-> 1]),
     k |-> Vec([u \in 1..n |-> Vec([v \in 1..n |-> 0])]),
     c |-> Vec([u \in 1..n |-> 0])]

\* Make the constraints es[i..] hold with equality, one after the other; a
\* constraint that the earlier ones already decide is left as it is.
\* The unknowns of the expression e.
FreeOf(e, n) == {v \in 1..n : e.k[v] # 0}

\* The unknown a constraint makes basic: its subject if that is still free.
PivotOf(constraint, free) ==
    IF constraint.subj \in free THEN constraint.subj ELSE MinOf(free)

RECURSIVE Eliminate(_, _, _, _)
Eliminate(st, es, i, n) ==
    IF i > Len(es) THEN st
    ELSE LET e    == Subst(st, es[i], n)
             free == FreeOf(e, n)
         IN  IF free = {} THEN Eliminate(st, es, i + 1, n)
             ELSE Eliminate(Pivot(st, e, PivotOf(es[i], free), n), es, i + 1, n)

\* The value of every unknown in the elimination state: a free unknown is 0.
TableauValues(st, n) ==
    Vec([u \in 1..n |-> IF u \in st.basic THEN st.c[u] \div st.d[u] ELSE 0])

\* The value of the expression of e (times its divisor) at the values val.
Residual(e, val, n) == SumTo([u \in 1..n |-> e.k[u] * val[u]], n) + e.c

\* Whether the relation of e holds at the values val.
Holds(e, val, n) ==
    CASE e.rel = "EQ" -> Residual(e, val, n) = 0
      [] e.rel = "GE" -> Residual(e, val, n) >= 0
      [] e.rel = "LE" -> Residual(e, val, n) <= 0

\* The violation of a STRONG or WEAK constraint e at the values val, in half
\* units (the divisor of such a constraint is 1 or 2).
Violation(e, val, n) ==
    IF Holds(e, val, n) THEN 0
    ELSE Abs(Residual(e, val, n)) * (2 \div e.div)

RECURSIVE SelectSeqIdx(_, _, _)
\* The subsequence of s at the positions in T, in order (from position i on).
SelectSeqIdx(s, T, i) ==
    IF i > Len(s) THEN <<>>
    ELSE (IF i \in T THEN <<s[i]>> ELSE <<>>) \o SelectSeqIdx(s, T, i + 1)

OfStrength(cs, s) == SelectSeq(cs, LAMBDA e : e.strength = s)

\* Whether the REQUIRED constraints of cs can hold together.
RequiredSatisfiable(cs, n) ==
    LET req == OfStrength(cs, "REQUIRED")
        val == TableauValues(Eliminate(EmptyTableau(n), req, 1, n), n)
    IN  \A i \in 1..Len(req) : Holds(req[i], val, n)

\* The cost at the values val of the constraints soft[i], i \in among, of
\* the given strength.
Cost(soft, among, strength, val, n) ==
    SumTo([i \in 1..Len(soft) |->
             IF i \in among /\ soft[i].strength = strength
             THEN Violation(soft[i], val, n) ELSE 0], Len(soft))

CandidateAt(st, val, soft, among, n) ==
    [val |-> val,
     rank |-> Cardinality(st.basic),
     exact |-> \A u \in st.basic : st.c[u] % st.d[u] = 0,
     strong |-> Cost(soft, among, "STRONG", val, n),
     weak |-> Cost(soft, among, "WEAK", val, n)]

\* The candidate solution of the elimination state st, with its cost over
\* the constraints in among.
CandidateOf(st, soft, among, n) ==
    CandidateAt(st, TableauValues(st, n), soft, among, n)

\* The candidate solution in which, on top of the elimination state base,
\* the constraints soft[T] hold with equality (as far as they can).
Candidate(base, soft, T, among, n) ==
    CandidateOf(Eliminate(base, SelectSeqIdx(soft, T, 1), 1, n), soft, among, n)

Cheaper(a, b) ==
    \/ a.strong < b.strong
    \/ a.strong = b.strong /\ a.weak < b.weak

Better(a, best) == IF Cheaper(a, best) THEN a ELSE best

\* The constraints of live that share an unknown, directly or through other
\* constraints, with one of the constraints in C (vars[i] are the unknowns
\* of constraint i).
RECURSIVE Connected(_, _, _)
Connected(C, live, vars) ==
    LET seen == UNION {vars[i] : i \in C}
        more == {i \in live : vars[i] \cap seen # {}}
    IN  IF more \subseteq C THEN C ELSE Connected(C \cup more, live, vars)

CoreOf(soft, live, vars, val, n) ==
    Connected({i \in live : Violation(soft[i], val, n) > 0}, live, vars)

\* The best of best and the candidates in which, on top of st, part of the
\* constraints soft[j] (j \in core, j >= i) hold with equality and decide
\* the others; rank is the number of unknowns such a part decides.  The
\* constraints are tried in their order, keeping one before dropping it,
\* and a later candidate replaces an earlier one only if it is cheaper.
RECURSIVE Search(_, _, _, _, _, _, _)
RECURSIVE SearchStep(_, _, _, _, _, _, _, _)
Search(st, soft, core, i, rank, best, n) ==
    IF best.strong = 0 /\ best.weak = 0 THEN best
    ELSE IF Cardinality(st.basic) + Cardinality({j \in core : j >= i}) < rank THEN best
    ELSE IF i > Len(soft) THEN Better(CandidateOf(st, soft, core, n), best)
    ELSE IF i \notin core THEN Search(st, soft, core, i + 1, rank, best, n)
    ELSE SearchStep(st, Subst(st, soft[i], n), soft, core, i, rank, best, n)

SearchStep(st, e, soft, core, i, rank, best, n) ==
    IF FreeOf(e, n) = {} THEN Search(st, soft, core, i + 1, rank, best, n)
    ELSE Search(st, soft, core, i + 1, rank,
                Search(Pivot(st, e, PivotOf(soft[i], FreeOf(e, n)), n),
                       soft, core, i + 1, rank, best, n),
                n)

RefineCore(st0, soft, live, core, all, n) ==
    Search(Eliminate(st0, SelectSeqIdx(soft, live \ core, 1), 1, n),
           soft, core, 1, all.rank, all, n)

\* The candidate all if it costs nothing, else the best candidate over the
\* constraints that share unknowns with a violated one; the other
\* constraints share no unknown with them and hold.
Refine(st0, soft, live, vars, all, n) ==
    IF all.strong = 0 /\ all.weak = 0 THEN all
    ELSE RefineCore(st0, soft, live, CoreOf(soft, live, vars, all.val, n), all, n)

\* The constraints that the REQUIRED ones do not decide.
LiveOf(soft, vars) == {i \in 1..Len(soft) : vars[i] # {}}

SolveLive(st0, soft, vars, live, n) ==
    Refine(st0, soft, live, vars, Candidate(st0, soft, live, live, n), n)

\* The unknowns each constraint of soft leaves free once the REQUIRED
\* constraints hold.
FreeVars(st0, soft, n) ==
    Vec([i \in 1..Len(soft) |-> FreeOf(Subst(st0, soft[i], n), n)])

SolveVars(st0, soft, vars, n) ==
    SolveLive(st0, soft, vars, LiveOf(soft, vars), n)

SolveSoft(st0, soft, n) == SolveVars(st0, soft, FreeVars(st0, soft, n), n)

\* The solution under the constraints cs: the REQUIRED constraints hold, and
\* the cost of the others is least.  A constraint that the REQUIRED ones
\* decide costs the same in every solution; the constraints that do not
\* share unknowns with a violated one hold with equality.
SolveCandidate(cs, n) ==
    SolveSoft(Eliminate(EmptyTableau(n), OfStrength(cs, "REQUIRED"), 1, n),
              OfStrength(cs, "STRONG") \o OfStrength(cs, "WEAK"), n)

\* The values of the unknowns 1..n under the constraints cs.
Solve(cs, n) == SolveCandidate(cs, n).val

\* ------------------------------------------------------------------------
\* The layout description (LayoutSystem and what it owns)
\* ------------------------------------------------------------------------

\* Layout units per stave space: the collision gap of 0.25 is one unit.
Scale == 4

Justifications == {"AlignStart", "AlignEnd", "Centered", "Justified"}

Layers == {"Foreground", "Midground", "Background"}

NumH(sys) == Len(sys.horizontal_grid_lines)

NumV(sys) == Len(sys.vertical_grid_lines)

NumB(sys) == Len(sys.blocks)

\* The solver unknowns, numbered in the order engrave creates them.
NumUnknowns(sys) == NumH(sys) + NumV(sys) + 4 * NumB(sys) + 1

HVar(sys, g) == g + 1

VVar(sys, g) == NumH(sys) + g + 1

TopVar(sys, b) == NumH(sys) + NumV(sys) + b + 1

BottomVar(sys, b) == NumH(sys) + NumV(sys) + NumB(sys) + b + 1

StartVar(sys, b) == NumH(sys) + NumV(sys) + 2 * NumB(sys) + b + 1

EndVar(sys, b) == NumH(sys) + NumV(sys) + 3 * NumB(sys) + b + 1

AlignedStartVar(sys) == NumH(sys) + NumV(sys) + 4 * NumB(sys) + 1

\* The six variable arrays an index is looked up in, and the error variant
\* a failed lookup is reported with.
Arrays == {"H", "V", "T", "B", "S", "E"}

\* ("A" stands for the aligned-start unknown, which is in no array.)
ArrayLen(sys, arr) ==
    CASE arr = "H" -> NumH(sys)
      [] arr = "V" -> NumV(sys)
      [] arr = "A" -> 1
      [] OTHER -> NumB(sys)

ArrayVar(sys, arr, idx) ==
    CASE arr = "H" -> HVar(sys, idx)
      [] arr = "V" -> VVar(sys, idx)
      [] arr = "T" -> TopVar(sys, idx)
      [] arr = "B" -> BottomVar(sys, idx)
      [] arr = "S" -> StartVar(sys, idx)
      [] arr = "E" -> EndVar(sys, idx)
      [] arr = "A" -> AlignedStartVar(sys)

UnknownVariant(arr) ==
    CASE arr = "H" -> "UnknownHorizontalGridLine"
      [] arr = "V" -> "UnknownVerticalGridLine"
      [] arr = "T" -> "UnknownBlockTopPosition"
      [] arr = "B" -> "UnknownBlockBottomPosition"
      [] arr = "S" -> "UnknownBlockStartPosition"
      [] arr = "E" -> "UnknownBlockEndPosition"

UnknownVariants == {UnknownVariant(arr) : arr \in Arrays}

\* One `.get(idx).ok_or(Unknown...(rep))?` of a constraint expression, with
\* the coefficient of the looked-up variable in (left side - right side).
Get(arr, idx, coef) == [arr |-> arr, idx |-> idx, rep |-> idx, coef |-> coef]

GetReporting(arr, idx, rep, coef) == [arr |-> arr, idx |-> idx, rep |-> rep, coef |-> coef]

\* A constraint expression as the code builds it: the lookups in evaluation
\* order, the constant of (left side - right side), the common divisor, the
\* relation and the strength.
Expr(gets, c, div, rel, strength) ==
    [gets |-> gets, c |-> c, div |-> div, rel |-> rel, strength |-> strength]

\* The lookups taken without a range check: every index is used as it is.
BuildConstraintUnchecked(sys, x) ==
    [ok |-> TRUE,
     cn |-> [subj |-> ArrayVar(sys, x.gets[1].arr, x.gets[1].idx),
             k |-> Vec([u \in 1..NumUnknowns(sys) |->
                      SumTo([t \in 1..Len(x.gets) |->
                               IF ArrayVar(sys, x.gets[t].arr, x.gets[t].idx) = u
                               THEN x.gets[t].coef ELSE 0], Len(x.gets))]),
             c |-> x.c, div |-> x.div, rel |-> x.rel,
             strength |-> x.strength, edit |-> FALSE]]

\* Evaluate the lookups of an expression in order: the first index that is
\* out of range ends it with the Unknown* error the code names there;
\* otherwise the solver constraint.
BuildConstraint(sys, x) ==
    LET bad == {t \in 1..Len(x.gets) :
                  x.gets[t].idx >= ArrayLen(sys, x.gets[t].arr)}
        n   == NumUnknowns(sys)
    IN  IF bad # {}
        THEN [ok |-> FALSE,
              error |-> [variant |-> UnknownVariant(x.gets[MinOf(bad)].arr),
                         index |-> x.gets[MinOf(bad)].rep]]
        ELSE [ok |-> TRUE,
              cn |-> [subj |-> ArrayVar(sys, x.gets[1].arr, x.gets[1].idx),
                      k |-> Vec([u \in 1..n |->
                               SumTo([t \in 1..Len(x.gets) |->
                                        IF ArrayVar(sys, x.gets[t].arr, x.gets[t].idx) = u
                                        THEN x.gets[t].coef ELSE 0], Len(x.gets))]),
                      c |-> x.c, div |-> x.div, rel |-> x.rel,
                      strength |-> x.strength, edit |-> FALSE]]

\* ------------------------------------------------------------------------
\* Translation of the authored constraints into solver constraints.
\* An authored constraint is a record [kind, g, g2, distance]: g and g2 are
\* the grid-line or block indexes it references (g2 only for the kinds with
\* two), distance its distance argument.
\* ------------------------------------------------------------------------

HorizontalGridLineConstraintKinds ==
    {"LockAboveHorizontalGridLineByDistance",
     "FloatAboveHorizontalGridLineByDistance",
     "LockBelowHorizontalGridLineByDistance",
     "FloatBelowHorizontalGridLineByDistance",
     "VerticallyCenterBetweenHorizontalGridLines"}

VerticalGridLineConstraintKinds ==
    {"LockBeforeVerticalGridLineByDistance",
     "FloatBeforeVerticalGridLineByDistance",
     "LockAfterVerticalGridLineByDistance",
     "FloatAfterVerticalGridLineByDistance"}

\* The expression add_horizontal_grid_line_constraint_to_solver builds.
HorizontalGridLineConstraintExpr(index, constraint) ==
    CASE constraint.kind = "LockAboveHorizontalGridLineByDistance" ->
           Expr(<<Get("H", index, 1),
                  GetReporting("H", constraint.g, index, -1)>>,
                constraint.distance, 1, "EQ", "STRONG")
      [] constraint.kind = "FloatAboveHorizontalGridLineByDistance" ->
           Expr(<<Get("H", index, 1), Get("H", constraint.g, -1)>>,
                constraint.distance, 1, "LE", "WEAK")
      [] constraint.kind = "LockBelowHorizontalGridLineByDistance" ->
           Expr(<<Get("H", index, 1), Get("H", constraint.g, -1)>>,
                -constraint.distance, 1, "EQ", "STRONG")
      [] constraint.kind = "FloatBelowHorizontalGridLineByDistance" ->
           Expr(<<Get("H", index, 1), Get("H", constraint.g, -1)>>,
                -constraint.distance, 1, "GE", "WEAK")
      [] constraint.kind = "VerticallyCenterBetweenHorizontalGridLines" ->
           Expr(<<Get("H", index, 2), Get("H", constraint.g, -1), Get("H", constraint.g2, -1)>>,
                0, 2, "EQ", "STRONG")

\* The vertical grid-line relations with before and after exchanged.
VerticalGridLineConstraintExprMirrored(index, constraint) ==
    CASE constraint.kind = "LockBeforeVerticalGridLineByDistance" ->
           Expr(<<Get("V", index, 1), Get("V", constraint.g, -1)>>,
                -constraint.distance, 1, "EQ", "STRONG")
      [] constraint.kind = "FloatBeforeVerticalGridLineByDistance" ->
           Expr(<<Get("V", index, 1), Get("V", constraint.g, -1)>>,
                -constraint.distance, 1, "GE", "WEAK")
      [] constraint.kind = "LockAfterVerticalGridLineByDistance" ->
           Expr(<<Get("V", index, 1), Get("V", constraint.g, -1)>>,
                constraint.distance, 1, "EQ", "STRONG")
      [] constraint.kind = "FloatAfterVerticalGridLineByDistance" ->
           Expr(<<Get("V", index, 1), Get("V", constraint.g, -1)>>,
                constraint.distance, 1, "LE", "WEAK")

\* The expression add_vertical_grid_line_constraint_to_solver builds.
VerticalGridLineConstraintExpr(index, constraint) ==
    CASE constraint.kind = "LockBeforeVerticalGridLineByDistance" ->
           Expr(<<Get("V", index, 1), Get("V", constraint.g, -1)>>,
                constraint.distance, 1, "EQ", "STRONG")
      [] constraint.kind = "FloatBeforeVerticalGridLineByDistance" ->
           Expr(<<Get("V", index, 1), Get("V", constraint.g, -1)>>,
                constraint.distance, 1, "LE", "WEAK")
      [] constraint.kind = "LockAfterVerticalGridLineByDistance" ->
           Expr(<<Get("V", index, 1), Get("V", constraint.g, -1)>>,
                -constraint.distance, 1, "EQ", "STRONG")
      [] constraint.kind = "FloatAfterVerticalGridLineByDistance" ->
           Expr(<<Get("V", index, 1), Get("V", constraint.g, -1)>>,
                -constraint.distance, 1, "GE", "WEAK")

BlockConstraintKinds ==
    {"LockTopToHorizontalGridLine",
     "FloatTopAfterHorizontalGridLine",
     "FloatBottomBeforeHorizontalGridLine",
     "LockBottomToHorizontalGridLine",
     "LockStartToVerticalGridLine",
     "FloatStartAfterVerticalGridLine",
     "FloatEndBeforeVerticalGridLine",
     "LockEndToVerticalGridLine",
     "LockVerticalCenterHalfwayBetweenHorizontalGridLines",
     "LockVerticalCenterToHorizontalGridLine",
     "LockHorizontalCenterHalfwayBetweenVerticalGridLines",
     "LockHorizontalCenterToVerticalGridLine",
     "PushHorizontalGridLineDownToAccommodateBlockHeight",
     "PushVerticalGridLineSidewaysToAccommodateBlockWidth",
     "FloatAfterBlockByDistance",
     "FloatBeforeBlockByDistance",
     "FloatAboveBlockByDistance",
     "FloatBeneathBlockByDistance",
     "LockStartToBlockStart",
     "LockEndToBlockEnd",
     "LockTopToBlockTop",
     "LockBottomToBlockBottom",
     "LockHorizontalCenterBetweenBlocks",
     "LockVerticalCenterBetweenBlocks",
     "LockHorizontalCenterToBlockCenter",
     "FloatHorizontalCenterToBlockCenter",
     "LockVerticalCenterToBlockCenter",
     "LockAfterBlockByDistance",
     "LockBeforeBlockByDistance",
     "LockAboveBlockByDistance",
     "LockBeneathBlockByDistance",
     "LockTopToBlockCenter",
     "LockBottomToBlockCenter"}

\* The expression add_block_constraint_to_solver builds for the block at
\* index; a constant the code halves is doubled here with divisor 2.
BlockConstraintExpr(index, block, constraint) ==
    CASE constraint.kind = "LockTopToHorizontalGridLine" ->
           Expr(<<Get("T", index, 1), Get("H", constraint.g, -1)>>,
                -block.top_padding, 1, "EQ", "STRONG")
      [] constraint.kind = "FloatTopAfterHorizontalGridLine" ->
           Expr(<<Get("T", index, 1), Get("H", constraint.g, -1)>>,
                -block.top_padding, 1, "GE", "WEAK")
      [] constraint.kind = "FloatBottomBeforeHorizontalGridLine" ->
           IF block.is_fixed_height
           THEN Expr(<<Get("T", index, 1), Get("H", constraint.g, -1)>>,
                     block.fixed_height + block.bottom_padding, 1, "LE", "WEAK")
           ELSE Expr(<<Get("B", index, 1), Get("H", constraint.g, -1)>>,
                     block.bottom_padding, 1, "LE", "WEAK")
      [] constraint.kind = "LockBottomToHorizontalGridLine" ->
           IF block.is_fixed_height
           THEN Expr(<<Get("T", index, 1), Get("H", constraint.g, -1)>>,
                     block.fixed_height + block.bottom_padding, 1, "EQ", "STRONG")
           ELSE Expr(<<Get("B", index, 1), Get("H", constraint.g, -1)>>,
                     block.bottom_padding, 1, "EQ", "STRONG")
      [] constraint.kind = "LockStartToVerticalGridLine" ->
           Expr(<<Get("S", index, 1), Get("V", constraint.g, -1)>>,
                -block.start_padding, 1, "EQ", "STRONG")
      [] constraint.kind = "FloatStartAfterVerticalGridLine" ->
           Expr(<<Get("S", index, 1), Get("V", constraint.g, -1)>>,
                -block.start_padding, 1, "GE", "WEAK")
      [] constraint.kind = "FloatEndBeforeVerticalGridLine" ->
           IF block.is_fixed_width
           THEN Expr(<<Get("S", index, 1), Get("V", constraint.g, -1)>>,
                     block.fixed_width + block.end_padding, 1, "LE", "WEAK")
           ELSE Expr(<<Get("E", index, 1), Get("V", constraint.g, -1)>>,
                     block.end_padding, 1, "LE", "WEAK")
      [] constraint.kind = "LockEndToVerticalGridLine" ->
           IF block.is_fixed_width
           THEN Expr(<<Get("S", index, 1), Get("V", constraint.g, -1)>>,
                     block.fixed_width + block.end_padding, 1, "EQ", "STRONG")
           ELSE Expr(<<Get("E", index, 1), Get("V", constraint.g, -1)>>,
                     block.end_padding, 1, "EQ", "STRONG")
      [] constraint.kind = "LockVerticalCenterHalfwayBetweenHorizontalGridLines" ->
           Expr(<<Get("T", index, 2), Get("H", constraint.g, -1), Get("H", constraint.g2, -1)>>,
                2 * block.descent, 2, "EQ", "STRONG")
      [] constraint.kind = "LockVerticalCenterToHorizontalGridLine" ->
           Expr(<<Get("T", index, 1), Get("H", constraint.g, -1)>>,
                block.descent, 1, "EQ", "STRONG")
      [] constraint.kind = "LockHorizontalCenterHalfwayBetweenVerticalGridLines" ->
           Expr(<<Get("S", index, 2), Get("V", constraint.g, -1), Get("V", constraint.g2, -1)>>,
                block.fixed_width, 2, "GE", "STRONG")
      [] constraint.kind = "LockHorizontalCenterToVerticalGridLine" ->
           Expr(<<Get("S", index, 2), Get("V", constraint.g, -2)>>,
                block.fixed_width, 2, "EQ", "STRONG")
      [] constraint.kind = "PushHorizontalGridLineDownToAccommodateBlockHeight" ->
           Expr(<<Get("H", constraint.g, 1), Get("T", index, -1)>>,
                -(block.fixed_height + block.bottom_padding), 1, "GE", "STRONG")
      [] constraint.kind = "PushVerticalGridLineSidewaysToAccommodateBlockWidth" ->
           Expr(<<Get("V", constraint.g, 1), Get("S", index, -1)>>,
                -(block.fixed_width + block.end_padding), 1, "GE", "STRONG")
      [] constraint.kind = "FloatAfterBlockByDistance" ->
           Expr(<<Get("S", index, 1), Get("E", constraint.g, -1)>>,
                -constraint.distance, 1, "GE", "WEAK")
      [] constraint.kind = "FloatBeforeBlockByDistance" ->
           Expr(<<Get("S", constraint.g, 1), Get("E", index, -1)>>,
                -constraint.distance, 1, "GE", "WEAK")
      [] constraint.kind = "FloatAboveBlockByDistance" ->
           Expr(<<Get("T", constraint.g, 1), Get("B", index, -1)>>,
                -constraint.distance, 1, "GE", "WEAK")
      [] constraint.kind = "FloatBeneathBlockByDistance" ->
           Expr(<<Get("T", index, 1), Get("B", constraint.g, -1)>>,
                -constraint.distance, 1, "GE", "WEAK")
      [] constraint.kind = "LockStartToBlockStart" ->
           Expr(<<Get("S", index, 1), Get("S", constraint.g, -1)>>,
                -block.start_padding, 1, "EQ", "STRONG")
      [] constraint.kind = "LockEndToBlockEnd" ->
           Expr(<<Get("E", index, 1), Get("E", constraint.g, -1)>>,
                block.end_padding, 1, "EQ", "STRONG")
      [] constraint.kind = "LockTopToBlockTop" ->
           Expr(<<Get("T", index, 1), Get("T", constraint.g, -1)>>,
                -block.top_padding, 1, "EQ", "STRONG")
      [] constraint.kind = "LockBottomToBlockBottom" ->
           Expr(<<Get("B", index, 1), Get("B", constraint.g, -1)>>,
                block.bottom_padding, 1, "EQ", "STRONG")
      [] constraint.kind = "LockHorizontalCenterBetweenBlocks" ->
           Expr(<<Get("S", index, 2), Get("E", constraint.g, -1), Get("S", constraint.g2, -1)>>,
                block.fixed_width, 2, "EQ", "STRONG")
      [] constraint.kind = "LockVerticalCenterBetweenBlocks" ->
           Expr(<<Get("T", index, 2), Get("B", constraint.g, -1), Get("T", constraint.g2, -1)>>,
                block.fixed_height, 2, "EQ", "STRONG")
      [] constraint.kind = "LockHorizontalCenterToBlockCenter" ->
           Expr(<<Get("S", index, 1), Get("E", index, 1), Get("S", constraint.g, -1), Get("E", constraint.g, -1)>>,
                0, 2, "EQ", "STRONG")
      [] constraint.kind = "FloatHorizontalCenterToBlockCenter" ->
           Expr(<<Get("S", index, 1), Get("E", index, 1), Get("S", constraint.g, -1), Get("E", constraint.g, -1)>>,
                0, 2, "EQ", "WEAK")
      [] constraint.kind = "LockVerticalCenterToBlockCenter" ->
           Expr(<<Get("T", index, 1), Get("B", index, 1), Get("T", constraint.g, -1), Get("B", constraint.g, -1)>>,
                0, 2, "EQ", "STRONG")
      [] constraint.kind = "LockAfterBlockByDistance" ->
           Expr(<<Get("S", index, 1), Get("E", constraint.g, -1)>>,
                -constraint.distance, 1, "EQ", "STRONG")
      [] constraint.kind = "LockBeforeBlockByDistance" ->
           Expr(<<Get("E", index, 1), Get("S", constraint.g, -1)>>,
                constraint.distance, 1, "EQ", "STRONG")
      [] constraint.kind = "LockAboveBlockByDistance" ->
           Expr(<<Get("B", index, 1), Get("T", constraint.g, -1)>>,
                constraint.distance, 1, "EQ", "STRONG")
      [] constraint.kind = "LockBeneathBlockByDistance" ->
           Expr(<<Get("T", index, 1), Get("B", constraint.g, -1)>>,
                -constraint.distance, 1, "EQ", "STRONG")
      [] constraint.kind = "LockTopToBlockCenter" ->
           Expr(<<Get("T", index, 2), Get("T", constraint.g, -1), Get("B", constraint.g, -1)>>,
                0, 2, "EQ", "STRONG")
      [] constraint.kind = "LockBottomToBlockCenter" ->
           Expr(<<Get("B", index, 2), Get("T", constraint.g, -1), Get("B", constraint.g, -1)>>,
                0, 2, "EQ", "STRONG")

\* ------------------------------------------------------------------------
\* The solver calls engrave makes
\* ------------------------------------------------------------------------

\* Solver::add_constraint: only a REQUIRED constraint that cannot hold with
\* the REQUIRED constraints already present is rejected.
add_constraint(solver, cn, n) ==
    IF cn.strength = "REQUIRED" /\ ~RequiredSatisfiable(Append(solver, cn), n)
    THEN [ok |-> FALSE, err |-> "UnsatisfiableConstraint"]
    ELSE [ok |-> TRUE, solver |-> Append(solver, cn)]

\* Solver::add_edit_variable(v, strength) followed by suggest_value(v, 0):
\* the edit constraint  v = 0  at the given strength.
add_edit_variable(solver, v, strength, n) ==
    Append(solver, [subj |-> v, k |-> Vec([u \in 1..n |-> IF u = v THEN 1 ELSE 0]),
                    c |-> 0, div |-> 1, rel |-> "EQ", strength |-> strength,
                    edit |-> TRUE])

\* Solver::suggest_value(v, num / den): the edit constraint of v becomes
\* v = num / den.
suggest_value(solver, v, num, den) ==
    Vec([i \in 1..Len(solver) |->
       IF solver[i].edit /\ solver[i].subj = v
       THEN [solver[i] EXCEPT !.k = Vec([u \in 1..Len(solver[i].k) |->
                                           IF u = v THEN den ELSE 0]),
                              !.c = -num, !.div = den]
       ELSE solver[i]])

\* Solver::get_value for every unknown.
get_values(sys, solver) == Solve(solver, NumUnknowns(sys))

\* A failed lookup or a rejected constraint, as the three add_*_constraint
\* functions report it.
AddToSolver(sys, solver, x, variant, index) ==
    LET b == BuildConstraint(sys, x)
    IN  IF ~b.ok THEN [ok |-> FALSE, error |-> b.error]
        ELSE LET r == add_constraint(solver, b.cn, NumUnknowns(sys))
             IN  IF r.ok THEN [ok |-> TRUE, solver |-> r.solver]
                 ELSE [ok |-> FALSE,
                       error |-> [variant |-> variant, err |-> r.err,
                                  index |-> index]]

add_horizontal_grid_line_constraint_to_solver(sys, solver, index, constraint) ==
    AddToSolver(sys, solver, HorizontalGridLineConstraintExpr(index, constraint),
                "AddConstraintErrorOnHorizontalGridLine", index)

add_vertical_grid_line_constraint_to_solver(sys, solver, index, constraint) ==
    AddToSolver(sys, solver, VerticalGridLineConstraintExpr(index, constraint),
                "AddConstraintErrorOnVerticalGridLine", index)

add_block_constraint_to_solver(sys, solver, index, block, constraint) ==
    AddToSolver(sys, solver, BlockConstraintExpr(index, block, constraint),
                "AddConstraintErrorOnBlock", index)

\* The sizing relations engrave adds for a block before its constraints.
FixedWidthExpr(index, block) ==
    Expr(<<Get("E", index, 1), Get("S", index, -1)>>,
         -(block.start_padding + block.fixed_width + block.end_padding),
         1, "EQ", "STRONG")

FixedHeightExpr(index, block) ==
    Expr(<<Get("B", index, 1), Get("T", index, -1)>>,
         -(block.top_padding + block.fixed_height + block.bottom_padding),
         1, "EQ", "STRONG")

\* ------------------------------------------------------------------------
\* Collision detection.  Positions are a record [top, bottom, start, end] of
\* sequences holding the solved edges of block index at position index + 1.
\* ------------------------------------------------------------------------

\* iset::IntervalMap as a sequence of entries [lo, hi, value] ordered by
\* (lo, hi).  Inserting an interval that is already a key either replaces
\* the stored value or adds a second entry, depending on the version of the
\* library the build links (replaces).
IntervalBefore(a, lo, hi) == a.lo < lo \/ (a.lo = lo /\ a.hi <= hi)

interval_map_insert(map, lo, hi, value, replaces) ==
    LET same == {i \in 1..Len(map) : map[i].lo = lo /\ map[i].hi = hi}
        e    == [lo |-> lo, hi |-> hi, value |-> value]
        k    == Cardinality({i \in 1..Len(map) : IntervalBefore(map[i], lo, hi)})
    IN  IF replaces /\ same # {}
        THEN [i \in 1..Len(map) |-> IF i \in same THEN e ELSE map[i]]
        ELSE SubSeq(map, 1, k) \o <<e>> \o SubSeq(map, k + 1, Len(map))

\* IntervalMap::iter(lo..hi): the values of the entries that overlap the
\* query, in key order.  The query must not be empty.
interval_map_iter(map, lo, hi) ==
    LET hit == SelectSeq(map, LAMBDA a : a.lo < hi /\ lo < a.hi)
    IN  [i \in 1..Len(hit) |-> hit[i].value]

SeqRange(q) == {q[i] : i \in 1..Len(q)}

\* The two interval maps detect_colliding_blocks fills, blocks index.. on.
RECURSIVE plane_intervals(_, _, _, _, _)
plane_intervals(blocks, pos, index, maps, replaces) ==
    IF index >= Len(blocks) THEN maps
    ELSE LET i == index + 1
             x == IF blocks[i].is_collidable /\ pos.end[i] > pos.start[i]
                  THEN interval_map_insert(maps.x, pos.start[i], pos.end[i],
                                           index, replaces)
                  ELSE maps.x
             y == IF blocks[i].is_collidable /\ pos.end[i] > pos.start[i]
                     /\ pos.bottom[i] > pos.top[i]
                  THEN interval_map_insert(maps.y, pos.top[i], pos.bottom[i],
                                           index, replaces)
                  ELSE maps.y
         IN  plane_intervals(blocks, pos, index + 1, [x |-> x, y |-> y], replaces)

\* A detector without the exemption for blocks of the same source.
from_any_source_spine_items(blocks, index, candidate) == TRUE

\* A detector for which two blocks without a source differ in source.
from_different_or_no_source_spine_items(blocks, index, candidate) ==
    \/ blocks[index + 1].source_moment_spine_item
         # blocks[candidate + 1].source_moment_spine_item
    \/ blocks[index + 1].source_moment_spine_item = 0

\* Lines 1559-1562 and 1618-1621: the two blocks do not come from the same
\* source spine item.
from_different_source_spine_items(blocks, index, candidate) ==
    blocks[index + 1].source_moment_spine_item
      # blocks[candidate + 1].source_moment_spine_item

\* The inner part of one scan for the block at index: the candidates cands
\* (from position c on) found on the first plane are confirmed on the second
\* plane, whose query range is lo2..hi2.
RECURSIVE scan_candidates(_, _, _, _, _, _, _)
scan_candidates(blocks, index, cands, c, second, lo2, hi2) ==
    IF c > Len(cands) THEN [panicked |-> FALSE, collisions |-> <<>>]
    ELSE LET cand == cands[c]
             rest == scan_candidates(blocks, index, cands, c + 1, second, lo2, hi2)
         IN  IF cand # index /\ from_different_source_spine_items(blocks, index, cand)
             THEN IF lo2 >= hi2 THEN [panicked |-> TRUE, collisions |-> <<>>]
                  ELSE IF cand \in SeqRange(interval_map_iter(second, lo2, hi2))
                       THEN [panicked |-> rest.panicked,
                             collisions |-> <<<<index, cand>>>> \o rest.collisions]
                       ELSE rest
             ELSE rest

\* One scan: the outer loop over the blocks from index on.  first and second
\* are the interval maps of the plane scanned first and of the other plane,
\* lo1/hi1 and lo2/hi2 the block edges that bound the queries on them.
RECURSIVE scan_blocks(_, _, _, _, _, _, _, _)
scan_blocks(blocks, index, first, second, lo1, hi1, lo2, hi2) ==
    IF index >= Len(blocks) THEN [panicked |-> FALSE, collisions |-> <<>>]
    ELSE IF ~blocks[index + 1].is_collidable
         THEN scan_blocks(blocks, index + 1, first, second, lo1, hi1, lo2, hi2)
         ELSE IF lo1[index + 1] >= hi1[index + 1]
              THEN [panicked |-> TRUE, collisions |-> <<>>]
              ELSE LET here == scan_candidates(blocks, index,
                                 interval_map_iter(first, lo1[index + 1], hi1[index + 1]),
                                 1, second, lo2[index + 1], hi2[index + 1])
                       rest == scan_blocks(blocks, index + 1, first, second,
                                           lo1, hi1, lo2, hi2)
                   IN  IF here.panicked THEN [panicked |-> TRUE, collisions |-> <<>>]
                       ELSE [panicked |-> rest.panicked,
                             collisions |-> IF rest.panicked THEN <<>>
                                            ELSE here.collisions \o rest.collisions]

detect_colliding_blocks_horizontally(blocks, maps, pos) ==
    scan_blocks(blocks, 0, maps.x, maps.y, pos.start, pos.end, pos.top, pos.bottom)

detect_colliding_blocks_vertically(blocks, maps, pos) ==
    scan_blocks(blocks, 0, maps.y, maps.x, pos.top, pos.bottom, pos.start, pos.end)

detect_colliding_blocks(blocks, horizontal_grid_lines_count, vertical_grid_lines_count, pos, replaces) ==
    LET maps == plane_intervals(blocks, pos, 0, [x |-> <<>>, y |-> <<>>], replaces)
    IN  IF horizontal_grid_lines_count > vertical_grid_lines_count
        THEN detect_colliding_blocks_horizontally(blocks, maps, pos)
        ELSE detect_colliding_blocks_vertically(blocks, maps, pos)

\* Block edges whose end moves when the block outlines are drawn.
block_positions_widened_by_outlines(sys, val) ==
    [top    |-> [i \in 1..NumB(sys) |-> val[TopVar(sys, i - 1)]],
     bottom |-> [i \in 1..NumB(sys) |-> val[BottomVar(sys, i - 1)]],
     start  |-> [i \in 1..NumB(sys) |-> val[StartVar(sys, i - 1)]],
     end    |-> [i \in 1..NumB(sys) |->
                  val[EndVar(sys, i - 1)]
                    + (IF sys.debug_do_draw_block_outlines THEN 1 ELSE 0)]]

\* The solved block edges, read from the values of the unknowns.
block_positions(sys, val) ==
    [top    |-> [i \in 1..NumB(sys) |-> val[TopVar(sys, i - 1)]],
     bottom |-> [i \in 1..NumB(sys) |-> val[BottomVar(sys, i - 1)]],
     start  |-> [i \in 1..NumB(sys) |-> val[StartVar(sys, i - 1)]],
     end    |-> [i \in 1..NumB(sys) |-> val[EndVar(sys, i - 1)]]]

\* ------------------------------------------------------------------------
\* Collision resolution and justification
\* ------------------------------------------------------------------------

\* The distance 0.25 a pushed block is locked after the other block.
ResolutionDistance == Scale \div 4

AuthoredConstraint(kind, g, g2, distance) ==
    [kind |-> kind, g |-> g, g2 |-> g2, distance |-> distance]

\* Whether resolve_colliding_blocks hands the pair to the vertical resolver.
ResolvesVertically(blocks, index_a, index_b) ==
    \/ blocks[index_a + 1].can_move_up_to_avoid_vertical_collision
    \/ blocks[index_a + 1].can_move_down_to_avoid_vertical_collision
    \/ blocks[index_b + 1].can_move_up_to_avoid_vertical_collision
    \/ blocks[index_b + 1].can_move_down_to_avoid_vertical_collision

\* A vertical resolver that reports the pair as an error.
resolve_colliding_blocks_vertically_failing(solver, index_a, index_b) ==
    [ok |-> FALSE,
     error |-> [variant |-> "AddConstraintErrorOnBlock",
                err |-> "UnsatisfiableConstraint", index |-> index_a]]

\* resolve_colliding_blocks_vertically adds nothing to the solver.
resolve_colliding_blocks_vertically(solver, index_a, index_b) ==
    [ok |-> TRUE, solver |-> solver]

\* A horizontal resolver that locks the pushed block at distance 0.
resolve_colliding_blocks_horizontally_abutting(sys, solver, index_a, index_b) ==
    IF StartVar(sys, index_a) > StartVar(sys, index_b)
    THEN add_block_constraint_to_solver(sys, solver, index_a, sys.blocks[index_a + 1],
           AuthoredConstraint("LockAfterBlockByDistance", index_b, 0, 0))
    ELSE add_block_constraint_to_solver(sys, solver, index_b, sys.blocks[index_b + 1],
           AuthoredConstraint("LockAfterBlockByDistance", index_a, 0, 0))

\* The comparison is between the start-position unknowns themselves, which
\* are ordered by creation.
resolve_colliding_blocks_horizontally(sys, solver, index_a, index_b) ==
    IF StartVar(sys, index_a) > StartVar(sys, index_b)
    THEN add_block_constraint_to_solver(sys, solver, index_a, sys.blocks[index_a + 1],
           AuthoredConstraint("LockAfterBlockByDistance", index_b, 0, ResolutionDistance))
    ELSE add_block_constraint_to_solver(sys, solver, index_b, sys.blocks[index_b + 1],
           AuthoredConstraint("LockAfterBlockByDistance", index_a, 0, ResolutionDistance))

\* The pre-justification engraved width: the largest solved block end, or 0.
MaxOrZero(q) == IF Len(q) = 0 THEN 0 ELSE MaxOf(SeqRange(q))

\* A Justified relation that keeps the original width of the spacing block.
JustifiedExprUnscaled(sys, index, engraved_system_width, total_rhythmic_spacing) ==
    Expr(<<Get("E", index, 1), Get("S", index, -1)>>,
         -sys.blocks[index + 1].fixed_width, 1, "EQ", "REQUIRED")

\* The REQUIRED relation Justified adds for the spacing block at index:
\* end = start + fixed_width * ratio, with
\* ratio = (total_rhythmic_spacing + target - engraved) / total_rhythmic_spacing.
JustifiedExpr(sys, index, engraved_system_width, total_rhythmic_spacing) ==
    Expr(<<Get("E", index, 1), Get("S", index, -1)>>,
         -((sys.blocks[index + 1].fixed_width
              * (total_rhythmic_spacing + sys.target_system_width
                   - engraved_system_width))
           \div total_rhythmic_spacing),
         1, "EQ", "REQUIRED")

RECURSIVE justify_spacing_blocks(_, _, _, _, _, _)
justify_spacing_blocks(sys, solver, spacing_blocks, i, engraved_system_width, total_rhythmic_spacing) ==
    IF i > Len(spacing_blocks) THEN [ok |-> TRUE, solver |-> solver]
    ELSE LET r == AddToSolver(sys, solver,
                    JustifiedExpr(sys, spacing_blocks[i], engraved_system_width,
                                  total_rhythmic_spacing),
                    "AddConstraintErrorOnBlock", spacing_blocks[i])
         IN  IF ~r.ok THEN r
             ELSE justify_spacing_blocks(sys, r.solver, spacing_blocks, i + 1,
                                         engraved_system_width, total_rhythmic_spacing)

\* AlignEnd pushing the aligned start by the whole target width.
align_end_to_target(target_system_width, engraved_system_width) ==
    target_system_width

\* Lines 1796-1807: the distance AlignEnd pushes the aligned start.
align_end_distance(target_system_width, engraved_system_width) ==
    target_system_width - engraved_system_width

\* Justified falling back on end alignment when there is no spacing block.
justify_or_align_end(sys, solver, spacing_blocks, engraved_system_width, total_rhythmic_spacing) ==
    IF spacing_blocks = <<>>
    THEN [ok |-> TRUE,
          solver |-> suggest_value(solver, AlignedStartVar(sys),
                       sys.target_system_width - engraved_system_width, 1)]
    ELSE justify_spacing_blocks(sys, solver, spacing_blocks, 1,
                                engraved_system_width, total_rhythmic_spacing)

\* Lines 1820-1850: Justified does nothing without spacing blocks, and else
\* adds the relation of every spacing block.
justify(sys, solver, spacing_blocks, engraved_system_width, total_rhythmic_spacing) ==
    IF spacing_blocks = <<>> THEN [ok |-> TRUE, solver |-> solver]
    ELSE justify_spacing_blocks(sys, solver, spacing_blocks, 1,
                                engraved_system_width, total_rhythmic_spacing)

\* AlignStart pushing the aligned start to the target width.
align_start_at_target(sys, solver) ==
    suggest_value(solver, AlignedStartVar(sys), sys.target_system_width, 1)

\* Lines 1788-1795: AlignStart suggests 0 for the aligned start again.
align_start(sys, solver) ==
    suggest_value(solver, AlignedStartVar(sys), 0, 1)

\* Centered pushing the aligned start by the whole difference.
centered_distance_unhalved(target_system_width, engraved_system_width) ==
    <<target_system_width - engraved_system_width, 1>>

\* Lines 1808-1819: the distance Centered pushes the aligned start, as
\* <<numerator, denominator>>.
centered_distance(target_system_width, engraved_system_width) ==
    <<target_system_width - engraved_system_width, 2>>

apply_justification_to_solver(sys, solver, engraved_system_width, total_rhythmic_spacing, spacing_blocks) ==
    CASE sys.justification = "AlignStart" ->
           [ok |-> TRUE, solver |-> align_start(sys, solver)]
      [] sys.justification = "AlignEnd" ->
           [ok |-> TRUE,
            solver |-> suggest_value(solver, AlignedStartVar(sys),
                         align_end_distance(sys.target_system_width,
                                            engraved_system_width), 1)]
      [] sys.justification = "Centered" ->
           [ok |-> TRUE,
            solver |-> suggest_value(solver, AlignedStartVar(sys),
                         centered_distance(sys.target_system_width,
                                           engraved_system_width)[1],
                         centered_distance(sys.target_system_width,
                                           engraved_system_width)[2])]
      [] sys.justification = "Justified" ->
           justify(sys, solver, spacing_blocks, engraved_system_width,
                   total_rhythmic_spacing)

\* ------------------------------------------------------------------------
\* Output assembly
\* ------------------------------------------------------------------------

\* The blocks of a layer, drawn whether they are visible or not.
create_engravables_from_hidden_blocks_in_layer(sys, layer, pos) ==
    LET keep == SelectSeq([i \in 1..NumB(sys) |-> i],
                          LAMBDA i : /\ sys.blocks[i].layer = layer
                                     /\ (sys.debug_do_show_rhythmic_spacing
                                           \/ ~sys.blocks[i].is_spacing_block))
    IN  [j \in 1..Len(keep) |->
           [kind |-> "block", index |-> keep[j] - 1,
            top |-> pos.top[keep[j]], bottom |-> pos.bottom[keep[j]],
            start |-> pos.start[keep[j]], end |-> pos.end[keep[j]]]]

create_engravables_from_blocks_in_layer(sys, layer, pos) ==
    LET keep == SelectSeq([i \in 1..NumB(sys) |-> i],
                          LAMBDA i : /\ sys.blocks[i].layer = layer
                                     /\ sys.blocks[i].is_visible
                                     /\ (sys.debug_do_show_rhythmic_spacing
                                           \/ ~sys.blocks[i].is_spacing_block))
    IN  [j \in 1..Len(keep) |->
           [kind |-> "block", index |-> keep[j] - 1,
            top |-> pos.top[keep[j]], bottom |-> pos.bottom[keep[j]],
            start |-> pos.start[keep[j]], end |-> pos.end[keep[j]]]]

create_debug_engravables_for_horizontal_grid_lines(sys, positions, width) ==
    [i \in 1..Len(positions) |->
       [kind |-> "horizontal_grid_line", index |-> i - 1,
        top |-> positions[i], bottom |-> positions[i], start |-> 0, end |-> width]]

create_debug_engravables_for_vertical_grid_lines(sys, positions, height) ==
    [i \in 1..Len(positions) |->
       [kind |-> "vertical_grid_line", index |-> i - 1,
        top |-> 0, bottom |-> height, start |-> positions[i], end |-> positions[i]]]

\* Four outline segments per block, in block order.
create_debug_engravables_for_block_bounding_boxes(sys, pos) ==
    [j \in 1..(4 * NumB(sys)) |->
       LET i == ((j - 1) \div 4) + 1
           side == (j - 1) % 4
       IN  [kind |-> "block_outline", index |-> i - 1,
            top    |-> IF side \in {0, 1, 3} THEN pos.top[i] ELSE pos.bottom[i],
            bottom |-> IF side \in {1, 2, 3} THEN pos.bottom[i] ELSE pos.top[i],
            start  |-> IF side \in {0, 2, 3} THEN pos.start[i] ELSE pos.end[i],
            end    |-> IF side \in {0, 1, 2} THEN pos.end[i] ELSE pos.start[i]]]

\* The horizontal grid-line coordinates collected in reverse order.
horizontal_grid_line_positions_reversed(sys, val) ==
    [i \in 1..NumH(sys) |-> val[HVar(sys, NumH(sys) - i)]]

\* Lines 462-465 and 486-489: one coordinate per grid line, in input order.
horizontal_grid_line_positions(sys, val) ==
    [i \in 1..NumH(sys) |-> val[HVar(sys, i - 1)]]

vertical_grid_line_positions(sys, val) ==
    [i \in 1..NumV(sys) |-> val[VVar(sys, i - 1)]]

\* The EngravedSystem engrave returns from the final values of the unknowns.
EngravedSystem(sys, val) ==
    LET pos    == block_positions(sys, val)
        width  == MaxOrZero(pos.end)
        height == MaxOrZero(pos.bottom)
        hpos   == horizontal_grid_line_positions(sys, val)
        vpos   == vertical_grid_line_positions(sys, val)
    IN  [kind |-> "Ok",
         horizontal_grid_line_positions |-> hpos,
         vertical_grid_line_positions |-> vpos,
         block_top_positions |-> pos.top,
         block_bottom_positions |-> pos.bottom,
         block_start_positions |-> pos.start,
         block_end_positions |-> pos.end,
         width |-> width,
         height |-> height,
         foreground |-> create_engravables_from_blocks_in_layer(sys, "Foreground", pos),
         midground |-> create_engravables_from_blocks_in_layer(sys, "Midground", pos),
         background |->
            create_engravables_from_blocks_in_layer(sys, "Background", pos)
            \o (IF sys.debug_do_draw_horizontal_grid_lines
                THEN create_debug_engravables_for_horizontal_grid_lines(sys, hpos, width)
                ELSE <<>>)
            \o (IF sys.debug_do_draw_vertical_grid_lines
                THEN create_debug_engravables_for_vertical_grid_lines(sys, vpos, height)
                ELSE <<>>)
            \o (IF sys.debug_do_draw_block_outlines
                THEN create_debug_engravables_for_block_bounding_boxes(sys, pos)
                ELSE <<>>)]

\* ------------------------------------------------------------------------
\* The state of one invocation of engrave
\* ------------------------------------------------------------------------

VARIABLES
    system,                  \* the LayoutSystem being engraved (never changed)
    pc,                      \* where the invocation is
    solver,                  \* the constraints added to the solver so far
    index,                   \* the grid line or block of the current loop
    cindex,                  \* the next constraint of that grid line or block
    spacing_blocks,          \* indexes of the spacing blocks met so far
    total_rhythmic_spacing,  \* sum of their fixed widths
    values,                  \* the values last read from the solver
    collisions,              \* the list detect_colliding_blocks returned
    resolved,                \* how many of its pairs have been resolved
    engraved_system_width,   \* the width measured before justification
    result                   \* what engrave returns

vars == <<system, pc, solver, index, cindex, spacing_blocks,
          total_rhythmic_spacing, values, collisions, resolved,
          engraved_system_width, result>>

Pending == [kind |-> "Pending"]

Err(error) == [kind |-> "Err", error |-> error]

\* The position of the first authored constraint at or after constraint j
\* of grid line i, if there is one.
GridLinesLeft(lines, i, j) ==
    {g \in i..(Len(lines) - 1) :
       (IF g = i THEN j ELSE 0) < Len(lines[g + 1].constraints)}

FirstBlock(sys) ==
    IF NumB(sys) > 0 THEN [pc |-> "block", index |-> 0, cindex |-> 0]
    ELSE [pc |-> "detect", index |-> 0, cindex |-> 0]

\* Where the loop over the vertical grid lines (lines 257-266) goes on from
\* constraint j of grid line i.
AfterVertical(sys, i, j) ==
    LET left == GridLinesLeft(sys.vertical_grid_lines, i, j)
    IN  IF left = {} THEN FirstBlock(sys)
        ELSE [pc |-> "vertical_grid_lines", index |-> MinOf(left),
              cindex |-> IF MinOf(left) = i THEN j ELSE 0]

\* The same for the loop over the horizontal grid lines (lines 246-255).
AfterHorizontal(sys, i, j) ==
    LET left == GridLinesLeft(sys.horizontal_grid_lines, i, j)
    IN  IF left = {} THEN AfterVertical(sys, 0, 0)
        ELSE [pc |-> "horizontal_grid_lines", index |-> MinOf(left),
              cindex |-> IF MinOf(left) = i THEN j ELSE 0]

\* Where the loop over the blocks goes on from constraint j of block i.
AfterBlock(sys, i, j) ==
    IF j < Len(sys.blocks[i + 1].constraints)
    THEN [pc |-> "block_constraints", index |-> i, cindex |-> j]
    ELSE IF i + 1 < NumB(sys) THEN [pc |-> "block", index |-> i + 1, cindex |-> 0]
         ELSE [pc |-> "detect", index |-> 0, cindex |-> 0]

\* A step whose failure is dropped: engrave goes on at next.
PropagateIgnoringFailure(r, next) ==
    /\ solver' = IF r.ok THEN r.solver ELSE solver
    /\ pc' = next.pc
    /\ index' = next.index
    /\ cindex' = next.cindex
    /\ result' = result

\* The `?` after a fallible step: its failure is what engrave returns, at
\* once; otherwise engrave goes on at next with the solver the step left.
Propagate(r, next) ==
    IF r.ok
    THEN /\ solver' = r.solver
         /\ pc' = next.pc
         /\ index' = next.index
         /\ cindex' = next.cindex
         /\ result' = result
    ELSE /\ pc' = "returned"
         /\ result' = Err(r.error)
         /\ UNCHANGED <<solver, index, cindex>>

\* An origin without the constraint on the top edge.
origin_top_edge_omitted(sys, s) == [ok |-> TRUE, solver |-> s]

\* Lines 199-205: the top edge is 0, if its index is in range.
origin_top_edge(sys, s) ==
    IF sys.top_edge < NumH(sys)
    THEN AddToSolver(sys, s,
                     Expr(<<Get("H", sys.top_edge, 1)>>, 0, 1, "EQ", "REQUIRED"),
                     "AddConstraintErrorOnHorizontalGridLine", sys.top_edge)
    ELSE [ok |-> TRUE, solver |-> s]

\* Lines 212-220: the aligned start is an edit variable suggested to 0.
origin_aligned_start(sys, s) ==
    suggest_value(add_edit_variable(s, AlignedStartVar(sys), "STRONG",
                                    NumUnknowns(sys)),
                  AlignedStartVar(sys), 0, 1)

\* An origin that reports a leading edge out of range as an unknown
\* vertical grid line.
origin_leading_edge_checked(sys, s) ==
    IF sys.leading_edge < NumV(sys)
    THEN AddToSolver(sys, s,
                     Expr(<<Get("V", sys.leading_edge, 1), Get("A", 0, -1)>>,
                          0, 1, "EQ", "REQUIRED"),
                     "AddConstraintErrorOnVerticalGridLine", sys.leading_edge)
    ELSE [ok |-> FALSE,
          error |-> [variant |-> UnknownVariant("V"), index |-> sys.leading_edge]]

\* Lines 222-232: the leading edge is the aligned start, if its index is in
\* range.
origin_leading_edge(sys, s) ==
    IF sys.leading_edge < NumV(sys)
    THEN AddToSolver(sys, s,
                     Expr(<<Get("V", sys.leading_edge, 1), Get("A", 0, -1)>>,
                          0, 1, "EQ", "REQUIRED"),
                     "AddConstraintErrorOnVerticalGridLine", sys.leading_edge)
    ELSE [ok |-> TRUE, solver |-> s]

\* ------------------------------------------------------------------------
\* The steps of engrave
\* ------------------------------------------------------------------------

\* Lines 199-232: the origin.
AddOriginConstraints ==
    /\ pc = "origin"
    /\ LET top == origin_top_edge(system, solver)
       IN  Propagate(IF top.ok
                     THEN origin_leading_edge(system,
                                              origin_aligned_start(system, top.solver))
                     ELSE top,
                     AfterHorizontal(system, 0, 0))
    /\ UNCHANGED <<system, spacing_blocks, total_rhythmic_spacing, values,
                   collisions, resolved, engraved_system_width>>

\* Lines 246-255: one authored constraint of a horizontal grid line.
AddHorizontalGridLineConstraint ==
    /\ pc = "horizontal_grid_lines"
    /\ Propagate(add_horizontal_grid_line_constraint_to_solver(system, solver, index,
                   system.horizontal_grid_lines[index + 1].constraints[cindex + 1]),
                 AfterHorizontal(system, index, cindex + 1))
    /\ UNCHANGED <<system, spacing_blocks, total_rhythmic_spacing, values,
                   collisions, resolved, engraved_system_width>>

\* Lines 257-266: one authored constraint of a vertical grid line.
AddVerticalGridLineConstraint ==
    /\ pc = "vertical_grid_lines"
    /\ Propagate(add_vertical_grid_line_constraint_to_solver(system, solver, index,
                   system.vertical_grid_lines[index + 1].constraints[cindex + 1]),
                 AfterVertical(system, index, cindex + 1))
    /\ UNCHANGED <<system, spacing_blocks, total_rhythmic_spacing, values,
                   collisions, resolved, engraved_system_width>>

\* Lines 272-324: the head of the loop over the blocks, for block index.
AddBlockSizeConstraints ==
    /\ pc = "block"
    /\ LET block == system.blocks[index + 1]
           w == IF block.is_fixed_width
                THEN AddToSolver(system, solver, FixedWidthExpr(index, block),
                                 "AddConstraintErrorOnBlock", index)
                ELSE [ok |-> TRUE, solver |-> solver]
           h == IF w.ok /\ block.is_fixed_height
                THEN AddToSolver(system, w.solver, FixedHeightExpr(index, block),
                                 "AddConstraintErrorOnBlock", index)
                ELSE w
       IN  /\ spacing_blocks' = IF block.is_spacing_block
                                THEN Append(spacing_blocks, index)
                                ELSE spacing_blocks
           /\ total_rhythmic_spacing' = IF block.is_spacing_block
                                        THEN total_rhythmic_spacing + block.fixed_width
                                        ELSE total_rhythmic_spacing
           /\ Propagate(h, AfterBlock(system, index, 0))
    /\ UNCHANGED <<system, values, collisions, resolved, engraved_system_width>>

\* Lines 328-341: one authored constraint of block index.
AddBlockConstraint ==
    /\ pc = "block_constraints"
    /\ Propagate(add_block_constraint_to_solver(system, solver, index,
                   system.blocks[index + 1],
                   system.blocks[index + 1].constraints[cindex + 1]),
                 AfterBlock(system, index, cindex + 1))
    /\ UNCHANGED <<system, spacing_blocks, total_rhythmic_spacing, values,
                   collisions, resolved, engraved_system_width>>

\* Lines 346-355: collision detection on the solved positions.  A query
\* with an empty range panics.
DetectCollidingBlocks ==
    /\ pc = "detect"
    /\ LET val == get_values(system, solver)
       IN  /\ values' = val
           /\ \E replaces \in BOOLEAN :
                LET r == detect_colliding_blocks(system.blocks, NumH(system),
                           NumV(system), block_positions(system, val), replaces)
                IN  /\ collisions' = r.collisions
                    /\ pc' = IF r.panicked THEN "panicked"
                             ELSE IF r.collisions = <<>> THEN "justify"
                             ELSE "resolve"
    /\ resolved' = 0
    /\ UNCHANGED <<system, solver, index, cindex, spacing_blocks,
                   total_rhythmic_spacing, engraved_system_width, result>>

\* A resolver that handles the first pair of the list only.
AfterFirstResolution ==
    [pc |-> "justify", index |-> index, cindex |-> cindex]

AfterResolution ==
    [pc |-> IF resolved + 1 < Len(collisions) THEN "resolve" ELSE "justify",
     index |-> index, cindex |-> cindex]

\* Lines 1674-1684: the next pair goes to the vertical resolver.
ResolveCollidingBlocksVertically ==
    /\ pc = "resolve"
    /\ ResolvesVertically(system.blocks, collisions[resolved + 1][1],
                          collisions[resolved + 1][2])
    /\ Propagate(resolve_colliding_blocks_vertically(solver,
                   collisions[resolved + 1][1], collisions[resolved + 1][2]),
                 AfterResolution)
    /\ resolved' = resolved + 1
    /\ UNCHANGED <<system, spacing_blocks, total_rhythmic_spacing, values,
                   collisions, engraved_system_width>>

\* Lines 1685-1698: the next pair goes to the horizontal resolver.
ResolveCollidingBlocksHorizontally ==
    /\ pc = "resolve"
    /\ ~ResolvesVertically(system.blocks, collisions[resolved + 1][1],
                           collisions[resolved + 1][2])
    /\ Propagate(resolve_colliding_blocks_horizontally(system, solver,
                   collisions[resolved + 1][1], collisions[resolved + 1][2]),
                 AfterResolution)
    /\ resolved' = resolved + 1
    /\ UNCHANGED <<system, spacing_blocks, total_rhythmic_spacing, values,
                   collisions, engraved_system_width>>

\* Lines 372-389: the engraved width is measured, then justification is
\* applied.
ApplyJustification ==
    /\ pc = "justify"
    /\ ~(system.justification = "Justified" /\ spacing_blocks # <<>>
           /\ total_rhythmic_spacing = 0)
    /\ LET val == get_values(system, solver)
           width == MaxOrZero(block_positions(system, val).end)
       IN  /\ values' = val
           /\ engraved_system_width' = width
           /\ Propagate(apply_justification_to_solver(system, solver, width,
                          total_rhythmic_spacing, spacing_blocks),
                        [pc |-> "read_back", index |-> index, cindex |-> cindex])
    /\ UNCHANGED <<system, spacing_blocks, total_rhythmic_spacing,
                   collisions, resolved>>

\* Lines 1825-1829 when the spacing blocks have a total width of 0: the
\* ratio is a division by zero in f32, infinite or not a number, and so is
\* every product with it; the coordinates are not followed further.
JustifyWithoutRhythmicSpacing ==
    /\ pc = "justify"
    /\ system.justification = "Justified"
    /\ spacing_blocks # <<>>
    /\ total_rhythmic_spacing = 0
    /\ values' = get_values(system, solver)
    /\ engraved_system_width'
         = MaxOrZero(block_positions(system, get_values(system, solver)).end)
    /\ pc' = "not_a_number"
    /\ UNCHANGED <<system, solver, index, cindex, spacing_blocks,
                   total_rhythmic_spacing, collisions, resolved, result>>

\* Lines 393-547: the final positions are read back and returned.
ReadBack ==
    /\ pc = "read_back"
    /\ LET val == get_values(system, solver)
       IN  /\ values' = val
           /\ result' = EngravedSystem(system, val)
    /\ pc' = "returned"
    /\ UNCHANGED <<system, solver, index, cindex, spacing_blocks,
                   total_rhythmic_spacing, collisions, resolved,
                   engraved_system_width>>

\* ------------------------------------------------------------------------
\* The layouts engrave is run on
\* ------------------------------------------------------------------------

GridLine(constraints) == [constraints |-> constraints]

\* A block with nothing set: variable size, no padding, not collidable, no
\* provenance (source_moment_spine_item 0 stands for None).
PlainBlock ==
    [layer |-> "Foreground", is_visible |-> TRUE, is_collidable |-> FALSE,
     is_spacing_block |-> FALSE,
     is_fixed_width |-> FALSE, fixed_width |-> 0,
     is_fixed_height |-> FALSE, fixed_height |-> 0,
     top_padding |-> 0, bottom_padding |-> 0,
     start_padding |-> 0, end_padding |-> 0, descent |-> 0,
     source_moment_spine_item |-> 0,
     can_move_up_to_avoid_vertical_collision |-> FALSE,
     can_move_down_to_avoid_vertical_collision |-> FALSE,
     constraints |-> <<>>]

FixedWidthBlock(width, constraints) ==
    [PlainBlock EXCEPT !.is_fixed_width = TRUE, !.fixed_width = width,
                       !.constraints = constraints]

FixedSizeBlock(width, height, constraints) ==
    [PlainBlock EXCEPT !.is_fixed_width = TRUE, !.fixed_width = width,
                       !.is_fixed_height = TRUE, !.fixed_height = height,
                       !.constraints = constraints]

SpacingBlock(width, constraints) ==
    [PlainBlock EXCEPT !.is_fixed_width = TRUE, !.fixed_width = width,
                       !.is_spacing_block = TRUE, !.constraints = constraints]

LayoutSystem(justification, target_system_width, horizontal_grid_lines, vertical_grid_lines, top_edge, leading_edge, blocks, debug) ==
    [justification |-> justification,
     target_system_width |-> target_system_width,
     horizontal_grid_lines |-> horizontal_grid_lines,
     vertical_grid_lines |-> vertical_grid_lines,
     top_edge |-> top_edge,
     leading_edge |-> leading_edge,
     blocks |-> blocks,
     debug_do_draw_horizontal_grid_lines |-> debug,
     debug_do_draw_vertical_grid_lines |-> debug,
     debug_do_show_rhythmic_spacing |-> debug,
     debug_do_draw_block_outlines |-> debug]

Ref(kind, g) == AuthoredConstraint(kind, g, 0, 0)

RefBy(kind, g, distance) == AuthoredConstraint(kind, g, 0, distance)

\* The largest index an authored constraint of the index layouts references;
\* the arrays of those layouts have two elements each.
MaxRef == 3

TwoIndexKinds ==
    {"VerticallyCenterBetweenHorizontalGridLines",
     "LockVerticalCenterHalfwayBetweenHorizontalGridLines",
     "LockHorizontalCenterHalfwayBetweenVerticalGridLines",
     "LockHorizontalCenterBetweenBlocks",
     "LockVerticalCenterBetweenBlocks"}

\* Every authored constraint of the given kinds, over the referenced
\* indexes 0..MaxRef.
ConstraintsOfKinds(kinds) ==
    {AuthoredConstraint(kind, g, g2, 2) :
       kind \in kinds \ TwoIndexKinds, g \in 0..MaxRef, g2 \in {0}}
    \cup {AuthoredConstraint(kind, g, g2, 2) :
            kind \in kinds \cap TwoIndexKinds, g \in 0..MaxRef, g2 \in {1, MaxRef}}

\* Two grid lines per axis and two blocks (one of fixed size, one not), with
\* one constraint under test put first on the carrier (grid line or block
\* number carrier) and an ordinary constraint after it.
IndexLayout(axis, carrier, constraint) ==
    LET first(a, c) == IF axis = a /\ carrier = c THEN <<constraint>> ELSE <<>>
    IN  LayoutSystem("AlignStart", 40,
          <<GridLine(first("H", 0)),
            GridLine(first("H", 1)
                     \o <<RefBy("LockBelowHorizontalGridLineByDistance", 0, 8)>>)>>,
          <<GridLine(first("V", 0)),
            GridLine(first("V", 1)
                     \o <<RefBy("LockAfterVerticalGridLineByDistance", 0, 8)>>)>>,
          0, 0,
          <<FixedSizeBlock(4, 4, first("B", 0)),
            [PlainBlock EXCEPT !.constraints =
               first("B", 1) \o <<Ref("LockStartToVerticalGridLine", 0)>>]>>,
          FALSE)

IndexLayouts ==
    {IndexLayout("H", carrier, c) :
       carrier \in 0..1, c \in ConstraintsOfKinds(HorizontalGridLineConstraintKinds)}
    \cup {IndexLayout("V", carrier, c) :
            carrier \in 0..1, c \in ConstraintsOfKinds(VerticalGridLineConstraintKinds)}
    \cup {IndexLayout("B", carrier, c) :
            carrier \in 0..1, c \in ConstraintsOfKinds(BlockConstraintKinds)}

\* Two spacing blocks in a row after the leading edge, a glyph at the start
\* of each, and a line from the leading edge to the end of the last spacing
\* block, which the trailing grid line (1) follows.  Without justification
\* the layout is 2 * spacing wide.
JustificationLayout(justification, target, spacing, debug) ==
    LayoutSystem(justification, target,
      <<GridLine(<<>>)>>,
      <<GridLine(<<>>), GridLine(<<>>)>>,
      0, 0,
      <<SpacingBlock(spacing, <<Ref("LockStartToVerticalGridLine", 0)>>),
        FixedWidthBlock(2 * Scale, <<Ref("LockStartToBlockStart", 0)>>),
        SpacingBlock(spacing, <<RefBy("LockAfterBlockByDistance", 0, 0)>>),
        FixedWidthBlock(2 * Scale, <<Ref("LockStartToBlockStart", 2)>>),
        [PlainBlock EXCEPT !.layer = "Background",
                           !.constraints = <<Ref("LockStartToVerticalGridLine", 0),
                                             Ref("LockEndToBlockEnd", 2),
                                             Ref("LockEndToVerticalGridLine", 1)>>]>>,
      debug)

JustificationLayouts ==
    {JustificationLayout(j, target * Scale, spacing * Scale, debug) :
       j \in Justifications, target \in {20, 30}, spacing \in {5},
       debug \in BOOLEAN}
    \cup {JustificationLayout(j, 30 * Scale, (15 * Scale) \div 2, FALSE) :
            j \in Justifications}

\* The justification scenario for any number of spacing blocks: spacing
\* block i (block 2 * (i - 1)) is spacings[i] wide and follows spacing block
\* i - 1, the first one starts at the leading edge and has the given end
\* padding; a glyph (block 2 * (i - 1) + 1) starts with each spacing block,
\* and the last block is the line from the leading edge to the end of the
\* last spacing block, which the trailing grid line (1) follows.
SpacedLayout(justification, target, spacings, padding) ==
    LET n == Len(spacings)
        block(j) ==
          IF j = 2 * n + 1
          THEN [PlainBlock EXCEPT !.layer = "Background",
                  !.constraints = <<Ref("LockStartToVerticalGridLine", 0),
                                    Ref("LockEndToBlockEnd", 2 * (n - 1)),
                                    Ref("LockEndToVerticalGridLine", 1)>>]
          ELSE IF j % 2 = 0
          THEN FixedWidthBlock(2 * Scale, <<Ref("LockStartToBlockStart", j - 2)>>)
          ELSE IF j = 1
          THEN [SpacingBlock(spacings[1], <<Ref("LockStartToVerticalGridLine", 0)>>)
                  EXCEPT !.end_padding = padding]
          ELSE SpacingBlock(spacings[(j + 1) \div 2],
                            <<RefBy("LockAfterBlockByDistance", j - 3, 0)>>)
    IN  LayoutSystem(justification, target,
          <<GridLine(<<>>)>>,
          <<GridLine(<<>>), GridLine(<<>>)>>,
          0, 0,
          Vec([j \in 1..(2 * n + 1) |-> block(j)]),
          FALSE)

\* Three equal spacing blocks (glyphs at 0, 5, 10; target 30), two unequal
\* ones stretched and shrunk, two equal ones of which one is padded (once
\* under a target smaller than the padding), and two of width 0.
SpacedLayouts ==
    {SpacedLayout(j, 30 * Scale, <<5 * Scale, 5 * Scale, 5 * Scale>>, 0) :
       j \in {"AlignStart", "Justified"}}
    \cup {SpacedLayout("Justified", target, <<5 * Scale, 10 * Scale>>, 0) :
            target \in {30 * Scale, 45 * Scale, (15 * Scale) \div 2}}
    \cup {SpacedLayout("Justified", 21 * Scale, <<5 * Scale, 5 * Scale>>, Scale)}
    \cup {SpacedLayout("Justified", 2 * Scale, <<5 * Scale, 5 * Scale>>, 4 * Scale)}
    \cup {SpacedLayout("Justified", 30 * Scale, <<0, 0>>, 0)}

\* The distances of the links of a chain of vertical grid lines, in layout
\* units; a distance is a signed number.
ChainDistances == {-2, 0, 3}

\* Three vertical grid lines of which each but the first carries one
\* "after" constraint (kinds[i], by distances[i]) on the one before it, and
\* one block of fixed width without constraints.
ChainLayout(justification, leading_edge, kinds, distances) ==
    LayoutSystem(justification, 10 * Scale,
      <<GridLine(<<>>)>>,
      <<GridLine(<<>>),
        GridLine(<<RefBy(kinds[1], 0, distances[1])>>),
        GridLine(<<RefBy(kinds[2], 1, distances[2])>>)>>,
      0, leading_edge,
      <<FixedWidthBlock(6, <<>>)>>,
      FALSE)

ChainLayouts ==
    {ChainLayout(j, leading_edge, kinds, distances) :
       j \in {"AlignStart", "AlignEnd"}, leading_edge \in {0, 1},
       kinds \in {"LockAfterVerticalGridLineByDistance",
                  "FloatAfterVerticalGridLineByDistance"}
                 \X {"LockAfterVerticalGridLineByDistance",
                     "FloatAfterVerticalGridLineByDistance"},
       distances \in ChainDistances \X ChainDistances}

\* Two grid lines per axis whose constraints pull at the origin lines (with
\* cycle, the two horizontal and the two vertical lines are each locked
\* after the other), one block after the first vertical grid line; the
\* origin indexes may be out of range.
OriginLayout(justification, top_edge, leading_edge, cycle) ==
    LayoutSystem(justification, 10 * Scale,
      <<GridLine(<<RefBy("LockBelowHorizontalGridLineByDistance", 1, 4)>>),
        GridLine(IF cycle
                 THEN <<RefBy("LockBelowHorizontalGridLineByDistance", 0, 4)>>
                 ELSE <<>>)>>,
      <<GridLine(<<RefBy("LockAfterVerticalGridLineByDistance", 1, 8)>>),
        GridLine(IF cycle
                 THEN <<RefBy("LockAfterVerticalGridLineByDistance", 0, 8)>>
                 ELSE <<>>)>>,
      top_edge, leading_edge,
      <<FixedSizeBlock(6, 4, <<Ref("LockStartToVerticalGridLine", 0),
                               Ref("LockTopToHorizontalGridLine", 0)>>)>>,
      FALSE)

OriginLayouts ==
    {OriginLayout(j, top_edge, leading_edge, cycle) :
       j \in Justifications,
       top_edge \in 0..2, leading_edge \in 0..2, cycle \in BOOLEAN}

\* Fixed-width blocks whose end edge is bound by Lock constraints.
\*  "span":  block 1 (width 3) is locked by its start to the leading edge and
\*           to the start of block 0, and by its end to the end of block 0
\*           and before block 2, which are 10 apart;
\*  "early": block 0 (variable width, from grid line 0 to grid line 1) locks
\*           its start and its end to those of block 1 (width 3);
\*  "grid":  block 1 (width 3) is locked by its start to grid line 0 and by
\*           its end to grid line 1;
\*  "end":   block 1 (width 3) is locked by its start to grid line 0 and by
\*           its end to the end of block 0.
ConflictLayout(shape, justification) ==
    LayoutSystem(justification, 10 * Scale,
      <<GridLine(<<>>)>>,
      <<GridLine(<<>>),
        GridLine(<<RefBy("LockAfterVerticalGridLineByDistance", 0, 10)>>)>>,
      0, 0,
      CASE shape = "span" ->
             <<FixedWidthBlock(10, <<Ref("LockStartToVerticalGridLine", 0)>>),
               FixedWidthBlock(3, <<Ref("LockStartToVerticalGridLine", 0),
                                    Ref("LockStartToBlockStart", 0),
                                    Ref("LockEndToBlockEnd", 0),
                                    RefBy("LockBeforeBlockByDistance", 2, 0)>>),
               FixedWidthBlock(4, <<Ref("LockStartToVerticalGridLine", 1)>>)>>
        [] shape = "early" ->
             <<[PlainBlock EXCEPT !.constraints =
                  <<Ref("LockStartToVerticalGridLine", 0),
                    Ref("LockEndToVerticalGridLine", 1),
                    Ref("LockStartToBlockStart", 1),
                    Ref("LockEndToBlockEnd", 1)>>],
               FixedWidthBlock(3, <<>>)>>
        [] shape = "grid" ->
             <<FixedWidthBlock(10, <<Ref("LockStartToVerticalGridLine", 0)>>),
               FixedWidthBlock(3, <<Ref("LockStartToVerticalGridLine", 0),
                                    Ref("LockEndToVerticalGridLine", 1)>>)>>
        [] shape = "end" ->
             <<FixedWidthBlock(10, <<Ref("LockStartToVerticalGridLine", 0)>>),
               FixedWidthBlock(3, <<Ref("LockStartToVerticalGridLine", 0),
                                    Ref("LockEndToBlockEnd", 0)>>)>>,
      FALSE)

ConflictLayouts ==
    {ConflictLayout(shape, j) :
       shape \in {"span", "early", "grid", "end"}, j \in {"AlignStart", "AlignEnd"}}

\* Two blocks of fixed size at the origin, block 1 shifted by its start
\* padding, with the given collision flags and provenance tags; rows is the
\* number of horizontal grid lines (there are two vertical ones).
CollisionLayout(rows, padding, width, collidable, up, source0, source1) ==
    LayoutSystem("AlignStart", 10 * Scale,
      [i \in 1..rows |-> GridLine(<<>>)],
      <<GridLine(<<>>), GridLine(<<>>)>>,
      0, 0,
      <<[FixedSizeBlock(8, 4, <<Ref("LockStartToVerticalGridLine", 0),
                                Ref("LockTopToHorizontalGridLine", 0)>>)
           EXCEPT !.is_collidable = TRUE,
                  !.source_moment_spine_item = source0,
                  !.can_move_up_to_avoid_vertical_collision = up],
        [FixedSizeBlock(width, 4, <<Ref("LockStartToVerticalGridLine", 0),
                                    Ref("LockTopToHorizontalGridLine", 0)>>)
           EXCEPT !.is_collidable = collidable,
                  !.source_moment_spine_item = source1,
                  !.start_padding = padding]>>,
      FALSE)

CollisionLayouts ==
    {CollisionLayout(rows, padding, width, collidable, up, src[1], src[2]) :
       rows \in {1, 3}, padding \in {0, 2}, width \in {0, 8},
       collidable \in BOOLEAN, up \in BOOLEAN,
       src \in {<<1, 2>>, <<1, 1>>, <<0, 0>>, <<0, 1>>}}

\* The four debug flags of a layout, as <<draw horizontal grid lines, draw
\* vertical grid lines, show rhythmic spacing, draw block outlines>>.
DebugFlagSettings == BOOLEAN \X BOOLEAN \X BOOLEAN \X BOOLEAN

WithDebugFlags(sys, flags) ==
    [sys EXCEPT !.debug_do_draw_horizontal_grid_lines = flags[1],
                !.debug_do_draw_vertical_grid_lines = flags[2],
                !.debug_do_show_rhythmic_spacing = flags[3],
                !.debug_do_draw_block_outlines = flags[4]]

\* The layers and the visibility of the five blocks of the centered
\* justification scenario (blocks 0 and 2 are its spacing blocks).
LayerAssignments ==
    {[layer |-> <<"Foreground", "Foreground", "Midground", "Midground", "Background">>,
      visible |-> <<TRUE, TRUE, TRUE, TRUE, TRUE>>],
     [layer |-> <<"Midground", "Background", "Foreground", "Foreground", "Foreground">>,
      visible |-> <<TRUE, FALSE, TRUE, TRUE, FALSE>>],
     [layer |-> <<"Background", "Background", "Background", "Background", "Background">>,
      visible |-> <<FALSE, TRUE, TRUE, FALSE, TRUE>>]}

\* That scenario with the given debug flags, layers and visibility.
DebugLayout(flags, assignment) ==
    LET sys == JustificationLayout("Centered", 30 * Scale, 5 * Scale, FALSE)
    IN  WithDebugFlags(
          [sys EXCEPT !.blocks =
             Vec([b \in 1..Len(sys.blocks) |->
                    [sys.blocks[b] EXCEPT !.layer = assignment.layer[b],
                                          !.is_visible = assignment.visible[b]]])],
          flags)

DebugLayouts ==
    {DebugLayout(flags, assignment) :
       flags \in DebugFlagSettings, assignment \in LayerAssignments}

\* The vertical-movement permissions of a block.
MovementFlags ==
    {<<0, "up">>, <<0, "down">>, <<1, "up">>, <<1, "down">>}

\* The two overlapping collidable blocks of different sources of
\* CollisionLayout, of which block flag[1] may move up or down.
MovableCollisionLayout(justification, flag) ==
    LET sys == CollisionLayout(1, 0, 8, TRUE, FALSE, 1, 2)
        b   == flag[1] + 1
    IN  [sys EXCEPT
           !.justification = justification,
           !.blocks[b].can_move_up_to_avoid_vertical_collision = (flag[2] = "up"),
           !.blocks[b].can_move_down_to_avoid_vertical_collision = (flag[2] = "down")]

MovableCollisionLayouts ==
    {MovableCollisionLayout(j, flag) : j \in Justifications, flag \in MovementFlags}

\* The two overlapping collidable blocks of different sources of
\* CollisionLayout, neither of which may move vertically, with the given
\* start paddings: block 0 starts later than block 1 when padding0 is the
\* greater.
PaddedCollisionLayout(justification, padding0, padding1) ==
    LET sys == CollisionLayout(1, padding1, 8, TRUE, FALSE, 1, 2)
    IN  [sys EXCEPT !.justification = justification,
                    !.blocks[1].start_padding = padding0]

PaddedCollisionLayouts ==
    {PaddedCollisionLayout(j, padding0, padding1) :
       j \in {"AlignStart", "AlignEnd"}, padding0 \in {2, 4}, padding1 \in {0, 2}}

\* One block whose only constraint locks its trailing edge to grid line 1
\* of the axis (8 stave spaces after grid line 0), of fixed or variable
\* size on both axes, with the given leading and trailing paddings.
RedirectionLayout(axis, fixed, leading_padding, trailing_padding, size) ==
    LayoutSystem("AlignStart", 40 * Scale,
      <<GridLine(<<>>),
        GridLine(<<RefBy("LockBelowHorizontalGridLineByDistance", 0, 8 * Scale)>>)>>,
      <<GridLine(<<>>),
        GridLine(<<RefBy("LockAfterVerticalGridLineByDistance", 0, 8 * Scale)>>)>>,
      0, 0,
      <<[PlainBlock EXCEPT
           !.is_fixed_width = fixed, !.fixed_width = size,
           !.is_fixed_height = fixed, !.fixed_height = size,
           !.start_padding = leading_padding, !.end_padding = trailing_padding,
           !.top_padding = leading_padding, !.bottom_padding = trailing_padding,
           !.constraints = IF axis = "V"
                           THEN <<Ref("LockEndToVerticalGridLine", 1)>>
                           ELSE <<Ref("LockBottomToHorizontalGridLine", 1)>>]>>,
      FALSE)

RedirectionLayouts ==
    {RedirectionLayout(axis, fixed, p[1], p[2], size) :
       axis \in {"H", "V"}, fixed \in BOOLEAN,
       p \in (0..2) \X (0..2), size \in {2, 4}}

\* The two overlapping collidable blocks of different sources of
\* CollisionLayout, the start of block 1 bound by a WEAK relation only or by
\* none; block 0 is a spacing block when spaced.
FloatingCollisionLayout(justification, target, floats, spaced) ==
    LET sys == CollisionLayout(1, 0, 8, TRUE, FALSE, 1, 2)
    IN  [sys EXCEPT
           !.justification = justification,
           !.target_system_width = target,
           !.blocks[1].is_spacing_block = spaced,
           !.blocks[2].constraints =
              (IF floats THEN <<Ref("FloatStartAfterVerticalGridLine", 0)>> ELSE <<>>)
              \o <<Ref("LockTopToHorizontalGridLine", 0)>>]

\* Targets that leave an even difference to the engraved width of 17
\* quarter spaces.
FloatingCollisionLayouts ==
    {FloatingCollisionLayout(j, target, floats, spaced) :
       j \in Justifications, target \in {41, 25}, floats \in BOOLEAN,
       spaced \in BOOLEAN}

Layouts ==
    IndexLayouts \cup JustificationLayouts \cup SpacedLayouts \cup ChainLayouts
    \cup OriginLayouts \cup ConflictLayouts \cup CollisionLayouts
    \cup MovableCollisionLayouts \cup PaddedCollisionLayouts \cup DebugLayouts
    \cup RedirectionLayouts \cup FloatingCollisionLayouts

\* The state when engrave is entered (lines 150-192, 268-270).
Init ==
    /\ system \in Layouts
    /\ pc = "origin"
    /\ solver = <<>>
    /\ index = 0
    /\ cindex = 0
    /\ spacing_blocks = <<>>
    /\ total_rhythmic_spacing = 0
    /\ values = <<>>
    /\ collisions = <<>>
    /\ resolved = 0
    /\ engraved_system_width = 0
    /\ result = Pending

Next ==
    \/ AddOriginConstraints
    \/ AddHorizontalGridLineConstraint
    \/ AddVerticalGridLineConstraint
    \/ AddBlockSizeConstraints
    \/ AddBlockConstraint
    \/ DetectCollidingBlocks
    \/ ResolveCollidingBlocksVertically
    \/ ResolveCollidingBlocksHorizontally
    \/ ApplyJustification
    \/ JustifyWithoutRhythmicSpacing
    \/ ReadBack

Spec == Init /\ [][Next]_vars

\* ------------------------------------------------------------------------
\* detect_colliding_blocks on drawn geometries: the blocks, their solved
\* edges and the grid-line counts are drawn, and the function is applied.
\* ------------------------------------------------------------------------

\* The largest coordinate of a drawn block edge.
MaxCoordinate == 2

\* The ranges [lo, hi) of positive extent up to MaxCoordinate.
PositiveRanges ==
    {r \in (0..MaxCoordinate) \X (0..MaxCoordinate) : r[1] < r[2]}

\* The ranges a drawn block takes on an axis: those of positive extent, one
\* of zero extent and one of negative extent.
DrawnRanges == PositiveRanges \cup {<<0, 0>>, <<1, 0>>}

DrawnBlock(collidable, source) ==
    [PlainBlock EXCEPT !.is_collidable = collidable,
                       !.source_moment_spine_item = source]

DrawnLayout(rows, columns, blocks) ==
    LayoutSystem("AlignStart", 0,
      [i \in 1..rows |-> GridLine(<<>>)], [i \in 1..columns |-> GridLine(<<>>)],
      0, 0, blocks, FALSE)

\* The values of the unknowns of sys when block b has the horizontal range
\* x[b + 1] and the vertical range y[b + 1]; the grid lines are at 0.
DrawnValues(sys, x, y) ==
    Vec([u \in 1..NumUnknowns(sys) |->
       LET b == CHOOSE c \in 0..(NumB(sys) - 1) :
                  u \in {TopVar(sys, c), BottomVar(sys, c),
                         StartVar(sys, c), EndVar(sys, c)}
       IN  IF u <= NumH(sys) + NumV(sys) \/ u = AlignedStartVar(sys) THEN 0
           ELSE CASE u = TopVar(sys, b) -> y[b + 1][1]
                  [] u = BottomVar(sys, b) -> y[b + 1][2]
                  [] u = StartVar(sys, b) -> x[b + 1][1]
                  [] u = EndVar(sys, b) -> x[b + 1][2]])

\* Two blocks with every combination of flags, tags and ranges.
InitDrawnPair ==
    \E rows \in 1..2, c \in BOOLEAN \X BOOLEAN,
       src \in {<<1, 2>>, <<1, 1>>, <<0, 0>>, <<0, 1>>},
       x \in DrawnRanges \X DrawnRanges, y \in DrawnRanges \X DrawnRanges :
         /\ system = DrawnLayout(rows, 1, <<DrawnBlock(c[1], src[1]),
                                            DrawnBlock(c[2], src[2])>>)
         /\ values = DrawnValues(system, x, y)

\* Three collidable blocks of positive extent, two tags.
InitDrawnTriple ==
    \E rows \in 1..2, src \in (1..2) \X (1..2) \X (1..2),
       x \in PositiveRanges \X PositiveRanges \X PositiveRanges,
       y \in {<<0, 1>>, <<0, MaxCoordinate>>} \X {<<0, 1>>, <<0, MaxCoordinate>>}
               \X {<<0, 1>>, <<0, MaxCoordinate>>} :
         /\ system = DrawnLayout(rows, 1, <<DrawnBlock(TRUE, src[1]),
                                            DrawnBlock(TRUE, src[2]),
                                            DrawnBlock(TRUE, src[3])>>)
         /\ values = DrawnValues(system, x, y)

InitDetect ==
    /\ InitDrawnPair \/ InitDrawnTriple
    /\ pc = "drawn"
    /\ solver = <<>>
    /\ index = 0
    /\ cindex = 0
    /\ spacing_blocks = <<>>
    /\ total_rhythmic_spacing = 0
    /\ collisions = <<>>
    /\ resolved = 0
    /\ engraved_system_width = 0
    /\ result = Pending

\* Lines 1443-1527 on the drawn values.
DetectDrawnBlocks ==
    /\ pc = "drawn"
    /\ \E replaces \in BOOLEAN :
         LET r == detect_colliding_blocks(system.blocks, NumH(system), NumV(system),
                    block_positions(system, values), replaces)
         IN  /\ collisions' = r.collisions
             /\ pc' = IF r.panicked THEN "panicked" ELSE "detected"
    /\ UNCHANGED <<system, solver, index, cindex, spacing_blocks,
                   total_rhythmic_spacing, values, resolved,
                   engraved_system_width, result>>

NextDetect == DetectDrawnBlocks

SpecDetect == InitDetect /\ [][NextDetect]_vars

\* ------------------------------------------------------------------------
\* Properties
\* ------------------------------------------------------------------------

Returned == pc = "returned"

Succeeded == result.kind = "Ok"

Failed == result.kind = "Err"

\* The width the sizing relation of lines 289-304 gives block b (1-based).
SizedWidth(b) ==
    system.blocks[b].start_padding + system.blocks[b].fixed_width
      + system.blocks[b].end_padding

\* C1: in every successful result, every fixed-width block (spacing blocks
\* included) is exactly start_padding + fixed_width + end_padding wide,
\* whatever constraints are authored on it and whatever the justification.
FixedWidthAlwaysKept ==
    Succeeded =>
      \A b \in 1..NumB(system) :
         system.blocks[b].is_fixed_width =>
            result.block_end_positions[b] - result.block_start_positions[b]
              = SizedWidth(b)

\* A successful result in which a fixed-width block that is no spacing block
\* has its end edge bound by Lock constraints, under AlignStart.
LockedEndBlockEngraved ==
    /\ Succeeded
    /\ system.justification = "AlignStart"
    /\ \E b \in 1..NumB(system) :
          /\ system.blocks[b].is_fixed_width
          /\ ~system.blocks[b].is_spacing_block
          /\ \E j \in 1..Len(system.blocks[b].constraints) :
                system.blocks[b].constraints[j].kind = "LockEndToBlockEnd"
          /\ result.block_end_positions[b] - result.block_start_positions[b]
               # SizedWidth(b)

\* The pairs of the collision list, as block indexes (0-based).
CollisionPairs == SeqRange(collisions)

Source(a) == system.blocks[a + 1].source_moment_spine_item

\* Block a has positive extent on both axes at the values read by detection.
PositiveExtent(a) ==
    /\ values[StartVar(system, a)] < values[EndVar(system, a)]
    /\ values[TopVar(system, a)] < values[BottomVar(system, a)]

\* The ranges [start, end) and [top, bottom) of a and b overlap.
Overlap(a, b) ==
    /\ values[StartVar(system, a)] < values[EndVar(system, b)]
    /\ values[StartVar(system, b)] < values[EndVar(system, a)]
    /\ values[TopVar(system, a)] < values[BottomVar(system, b)]
    /\ values[TopVar(system, b)] < values[BottomVar(system, a)]

Detected == pc = "detected"

\* C2: no pair of the list detect_colliding_blocks returns consists of two
\* blocks with the same source spine item, whichever axis is scanned first.
SameSourceNeverCollides ==
    \A p \in CollisionPairs : Source(p[1]) # Source(p[2])

\* Detection has returned a non-empty list although two collidable blocks of
\* the same source overlap on both axes.
SameSourceOverlapDetected ==
    /\ Detected
    /\ collisions # <<>>
    /\ \E a, b \in 0..(NumB(system) - 1) :
          /\ a # b
          /\ system.blocks[a + 1].is_collidable /\ system.blocks[b + 1].is_collidable
          /\ Source(a) = Source(b) /\ Source(a) # 0
          /\ PositiveExtent(a) /\ PositiveExtent(b) /\ Overlap(a, b)

\* The ordered pairs of distinct collidable blocks of different sources and
\* of positive extent whose ranges overlap on both axes.
TrueCollisions ==
    {p \in (0..(NumB(system) - 1)) \X (0..(NumB(system) - 1)) :
       /\ p[1] # p[2]
       /\ system.blocks[p[1] + 1].is_collidable
       /\ system.blocks[p[2] + 1].is_collidable
       /\ Source(p[1]) # Source(p[2])
       /\ PositiveExtent(p[1]) /\ PositiveExtent(p[2])
       /\ Overlap(p[1], p[2])}

\* C3: the list detect_colliding_blocks returns is exactly the set of the
\* ordered pairs of distinct collidable blocks of different sources and of
\* positive extent that overlap on both axes, each pair once.
CollisionListExact ==
    Detected =>
      /\ CollisionPairs = TrueCollisions
      /\ Len(collisions) = Cardinality(TrueCollisions)

\* Detection has returned for two collidable blocks of different sources
\* with the same horizontal range, and a true collision is not in the list.
IdenticalRangePairMissing ==
    /\ Detected
    /\ \E p \in TrueCollisions :
          /\ p \notin CollisionPairs
          /\ values[StartVar(system, p[1])] = values[StartVar(system, p[2])]
          /\ values[EndVar(system, p[1])] = values[EndVar(system, p[2])]

\* The lookups the authored constraints of the layout make, in any order.
AuthoredLookups ==
    UNION {UNION {SeqRange(HorizontalGridLineConstraintExpr(g,
                     system.horizontal_grid_lines[g + 1].constraints[j]).gets) :
                    j \in 1..Len(system.horizontal_grid_lines[g + 1].constraints)} :
             g \in 0..(NumH(system) - 1)}
    \cup UNION {UNION {SeqRange(VerticalGridLineConstraintExpr(g,
                          system.vertical_grid_lines[g + 1].constraints[j]).gets) :
                         j \in 1..Len(system.vertical_grid_lines[g + 1].constraints)} :
                  g \in 0..(NumV(system) - 1)}
    \cup UNION {UNION {SeqRange(BlockConstraintExpr(b, system.blocks[b + 1],
                          system.blocks[b + 1].constraints[j]).gets) :
                         j \in 1..Len(system.blocks[b + 1].constraints)} :
                  b \in 0..(NumB(system) - 1)}

\* Some authored constraint references an index that is out of range for
\* the array it is looked up in.
ReferencesOutOfRange ==
    \E get \in AuthoredLookups : get.idx >= ArrayLen(system, get.arr)

\* C4: if an authored constraint references an out-of-range grid-line or
\* block index, engrave returns Err with one of the Unknown* variants: it
\* reaches no later phase and returns no EngravedSystem.
OutOfRangeIsUnknownError ==
    ReferencesOutOfRange =>
      /\ ~Succeeded
      /\ pc \notin {"detect", "resolve", "justify", "read_back", "panicked"}
      /\ Returned => Failed /\ result.error.variant \in UnknownVariants

\* engrave has returned an Unknown* error for a layout with an out-of-range
\* reference on a block constraint.
OutOfRangeReturned ==
    /\ Returned
    /\ ReferencesOutOfRange
    /\ Failed
    /\ result.error.variant = "UnknownBlockStartPosition"

\* The length of the array an Unknown* variant names.
VariantArrayLen(variant) ==
    CASE variant = "UnknownHorizontalGridLine" -> NumH(system)
      [] variant = "UnknownVerticalGridLine" -> NumV(system)
      [] OTHER -> NumB(system)

\* C5: the index an Unknown* error carries is the out-of-range index the
\* failing constraint referenced, not the index of its carrier: it is out
\* of range for the array the variant names.
ReportedIndexIsOffending ==
    (Returned /\ Failed /\ result.error.variant \in UnknownVariants) =>
       result.error.index >= VariantArrayLen(result.error.variant)

\* engrave has returned UnknownHorizontalGridLine with an index that is in
\* range for the horizontal grid lines.
CarrierIndexReported ==
    /\ Returned
    /\ Failed
    /\ result.error.variant = "UnknownHorizontalGridLine"
    /\ result.error.index < NumH(system)

\* The step engrave is about to take fails: the constraint it is about to
\* add cannot be built or is rejected.
FailingStep ==
    \/ /\ pc = "horizontal_grid_lines"
       /\ ~add_horizontal_grid_line_constraint_to_solver(system, solver, index,
             system.horizontal_grid_lines[index + 1].constraints[cindex + 1]).ok
    \/ /\ pc = "vertical_grid_lines"
       /\ ~add_vertical_grid_line_constraint_to_solver(system, solver, index,
             system.vertical_grid_lines[index + 1].constraints[cindex + 1]).ok
    \/ /\ pc = "block_constraints"
       /\ ~add_block_constraint_to_solver(system, solver, index,
             system.blocks[index + 1],
             system.blocks[index + 1].constraints[cindex + 1]).ok

\* C6: the first failure of a step ends the invocation: the step that fails
\* returns Err and adds nothing, and no step is taken once there is a
\* result (no later constraint, no later phase, no retry).
FirstFailureEndsInvocation ==
    [][/\ result.kind = "Pending"
       /\ FailingStep => /\ pc' = "returned"
                         /\ result'.kind = "Err"
                         /\ solver' = solver
                         /\ values' = values
                         /\ collisions' = collisions
       /\ result'.kind = "Err" => pc' = "returned" /\ solver' = solver]_vars

\* engrave has returned Err from a grid-line constraint while the blocks of
\* the layout still had constraints to add, and no later phase has run.
FailedBeforeBlocks ==
    /\ Returned
    /\ Failed
    /\ result.error.variant \in {"UnknownHorizontalGridLine", "UnknownVerticalGridLine"}
    /\ \E b \in 1..NumB(system) : system.blocks[b].constraints # <<>>
    /\ \A i \in 1..Len(solver) : solver[i].subj <= NumH(system) + NumV(system)
                                    \/ solver[i].edit
    /\ values = <<>>

\* C8: a successful result holds one coordinate per horizontal and per
\* vertical grid line, position i being the coordinate of grid line i, and
\* the four edges of every block.
EveryCoordinateReadBack ==
    Succeeded =>
      /\ DOMAIN result.horizontal_grid_line_positions = 1..NumH(system)
      /\ DOMAIN result.vertical_grid_line_positions = 1..NumV(system)
      /\ \A g \in 0..(NumH(system) - 1) :
            result.horizontal_grid_line_positions[g + 1] = values[HVar(system, g)]
      /\ \A g \in 0..(NumV(system) - 1) :
            result.vertical_grid_line_positions[g + 1] = values[VVar(system, g)]
      /\ DOMAIN result.block_top_positions = 1..NumB(system)
      /\ DOMAIN result.block_bottom_positions = 1..NumB(system)
      /\ DOMAIN result.block_start_positions = 1..NumB(system)
      /\ DOMAIN result.block_end_positions = 1..NumB(system)
      /\ \A b \in 0..(NumB(system) - 1) :
            /\ result.block_top_positions[b + 1] = values[TopVar(system, b)]
            /\ result.block_bottom_positions[b + 1] = values[BottomVar(system, b)]
            /\ result.block_start_positions[b + 1] = values[StartVar(system, b)]
            /\ result.block_end_positions[b + 1] = values[EndVar(system, b)]

\* A successful result for a layout with two grid lines per axis at
\* different coordinates and two blocks.
DistinctCoordinatesReadBack ==
    /\ Succeeded
    /\ NumH(system) = 2 /\ NumV(system) = 2 /\ NumB(system) = 2
    /\ result.horizontal_grid_line_positions[1] # result.horizontal_grid_line_positions[2]
    /\ result.vertical_grid_line_positions[1] # result.vertical_grid_line_positions[2]

OriginInRange ==
    system.top_edge < NumH(system) /\ system.leading_edge < NumV(system)

\* C9: in a successful result with in-range origin indexes the top-edge
\* grid line is at 0 and the leading-edge grid line is at the final value of
\* the aligned start, whatever is authored on those grid lines.
OriginKept ==
    (Succeeded /\ OriginInRange) =>
       /\ result.horizontal_grid_line_positions[system.top_edge + 1] = 0
       /\ result.vertical_grid_line_positions[system.leading_edge + 1]
            = values[AlignedStartVar(system)]

\* A successful result in which both origin grid lines carry authored
\* constraints and the aligned start has been moved.
ConstrainedOriginEngraved ==
    /\ Succeeded
    /\ OriginInRange
    /\ system.horizontal_grid_lines[system.top_edge + 1].constraints # <<>>
    /\ system.vertical_grid_lines[system.leading_edge + 1].constraints # <<>>
    /\ values[AlignedStartVar(system)] # 0

\* The blocks whose start is locked to the leading edge, directly or by way
\* of the blocks in A.
RECURSIVE PositionedFromLeadingEdge(_)
PositionedFromLeadingEdge(A) ==
    LET more == {b \in 0..(NumB(system) - 1) :
                   \E j \in 1..Len(system.blocks[b + 1].constraints) :
                      LET c == system.blocks[b + 1].constraints[j]
                      IN  \/ /\ c.kind = "LockStartToVerticalGridLine"
                             /\ c.g = system.leading_edge
                          \/ /\ c.kind \in {"LockStartToBlockStart",
                                            "LockAfterBlockByDistance"}
                             /\ c.g \in A}
    IN  IF more \subseteq A THEN A ELSE PositionedFromLeadingEdge(A \cup more)

\* C10: with AlignEnd the aligned start is re-suggested to target width -
\* engraved width (the largest block end before justification); the leading
\* edge ends there, and when every block is positioned from the leading
\* edge the final width is the target width.
AlignEndReachesTarget ==
    (Succeeded /\ system.justification = "AlignEnd") =>
       /\ values[AlignedStartVar(system)]
            = system.target_system_width - engraved_system_width
       /\ system.leading_edge < NumV(system) =>
            /\ result.vertical_grid_line_positions[system.leading_edge + 1]
                 = system.target_system_width - engraved_system_width
            /\ PositionedFromLeadingEdge({}) = 0..(NumB(system) - 1) =>
                 result.width = system.target_system_width

\* The worked case: engraved width 15, target 30, AlignEnd: the leading edge
\* ends at 15 and the trailing grid line and the width at 30.
AlignEndFifteenThirty ==
    /\ Succeeded
    /\ system.justification = "AlignEnd"
    /\ engraved_system_width = 15 * Scale
    /\ system.target_system_width = 30 * Scale
    /\ PositionedFromLeadingEdge({}) = 0..(NumB(system) - 1)
    /\ result.vertical_grid_line_positions[1] = 15 * Scale
    /\ result.vertical_grid_line_positions[2] = 30 * Scale
    /\ result.width = 30 * Scale

\* C11: with Centered the aligned start is re-suggested to (target width -
\* engraved width) / 2; the leading edge ends there, and when every block is
\* positioned from the leading edge the right margin (target width - final
\* width) equals the left margin (the leading edge).
CenteredEqualMargins ==
    (Succeeded /\ system.justification = "Centered") =>
       /\ 2 * values[AlignedStartVar(system)]
            = system.target_system_width - engraved_system_width
       /\ system.leading_edge < NumV(system) =>
            /\ 2 * result.vertical_grid_line_positions[system.leading_edge + 1]
                 = system.target_system_width - engraved_system_width
            /\ PositionedFromLeadingEdge({}) = 0..(NumB(system) - 1) =>
                 system.target_system_width - result.width
                   = result.vertical_grid_line_positions[system.leading_edge + 1]

\* A successful Centered result whose engraved width was 10 stave spaces
\* under a target of 30: both margins are 10.
CenteredTenThirty ==
    /\ Succeeded
    /\ system.justification = "Centered"
    /\ engraved_system_width = 10 * Scale
    /\ system.target_system_width = 30 * Scale
    /\ PositionedFromLeadingEdge({}) = 0..(NumB(system) - 1)
    /\ result.vertical_grid_line_positions[1] = 10 * Scale
    /\ result.width = 20 * Scale

\* C12: with AlignStart justification adds no constraint and leaves the
\* solver as it is, the aligned start stays 0, and every grid-line and
\* block coordinate of the result is its value before justification; the
\* leading edge is at 0.
AlignStartChangesNothing ==
    [][system.justification = "AlignStart" =>
         /\ pc = "justify" => solver' = solver
         /\ pc = "read_back" =>
              /\ values' = values
              /\ values'[AlignedStartVar(system)] = 0
              /\ result'.kind = "Ok"
              /\ result'.horizontal_grid_line_positions
                   = horizontal_grid_line_positions(system, values)
              /\ result'.vertical_grid_line_positions
                   = vertical_grid_line_positions(system, values)
              /\ result'.block_top_positions = block_positions(system, values).top
              /\ result'.block_bottom_positions
                   = block_positions(system, values).bottom
              /\ result'.block_start_positions
                   = block_positions(system, values).start
              /\ result'.block_end_positions = block_positions(system, values).end
              /\ system.leading_edge < NumV(system) =>
                   result'.vertical_grid_line_positions[system.leading_edge + 1] = 0]_vars

\* A successful AlignStart result with a target width above the engraved
\* width, after collision resolution has pushed a block away from the
\* leading edge, which is at 0.
AlignStartAfterResolution ==
    /\ Succeeded
    /\ system.justification = "AlignStart"
    /\ collisions # <<>>
    /\ engraved_system_width < system.target_system_width
    /\ result.vertical_grid_line_positions[system.leading_edge + 1] = 0
    /\ \E b \in 1..NumB(system) : result.block_start_positions[b] > 0

\* The blocks of the layout that are spacing blocks (0-based indexes).
SpacingBlocksOf(sys) ==
    {b \in 0..(NumB(sys) - 1) : sys.blocks[b + 1].is_spacing_block}

JustifiedWithoutSpacingChangesNothing ==
    [][(system.justification = "Justified" /\ SpacingBlocksOf(system) = {}) =>
         /\ pc = "justify" => solver' = solver
         /\ pc = "read_back" =>
              /\ values' = values
              /\ result'.kind = "Ok"
              /\ result'.horizontal_grid_line_positions
                   = horizontal_grid_line_positions(system, values)
              /\ result'.vertical_grid_line_positions
                   = vertical_grid_line_positions(system, values)
              /\ result'.block_top_positions = block_positions(system, values).top
              /\ result'.block_bottom_positions
                   = block_positions(system, values).bottom
              /\ result'.block_start_positions
                   = block_positions(system, values).start
              /\ result'.block_end_positions = block_positions(system, values).end
              /\ result'.width = engraved_system_width
              /\ result'.height = MaxOrZero(block_positions(system, values).bottom)]_vars

\* A successful Justified result for a layout with a block, no spacing
\* block and a target width above its engraved width.
JustifiedWithoutSpacingEngraved ==
    /\ Succeeded
    /\ system.justification = "Justified"
    /\ NumB(system) > 0
    /\ SpacingBlocksOf(system) = {}
    /\ result.width > 0
    /\ result.width < system.target_system_width

\* The vertical grid lines form a chain: the first carries nothing, every
\* other one carries exactly one Lock- or Float-after constraint on the one
\* before it, and no block carries a constraint.
IsAfterChain ==
    /\ NumV(system) >= 2
    /\ system.vertical_grid_lines[1].constraints = <<>>
    /\ \A g \in 1..(NumV(system) - 1) :
          /\ Len(system.vertical_grid_lines[g + 1].constraints) = 1
          /\ system.vertical_grid_lines[g + 1].constraints[1].kind
               \in {"LockAfterVerticalGridLineByDistance",
                    "FloatAfterVerticalGridLineByDistance"}
          /\ system.vertical_grid_lines[g + 1].constraints[1].g = g - 1
    /\ \A b \in 1..NumB(system) : system.blocks[b].constraints = <<>>

\* The distances of the links of the chain are not negative.
ChainDistancesNotNegative ==
    \A g \in 1..(NumV(system) - 1) :
       system.vertical_grid_lines[g + 1].constraints[1].distance >= 0

\* The resolved x-coordinates of the vertical grid lines do not decrease.
ChainOrdered ==
    \A g \in 1..(NumV(system) - 1) :
       result.vertical_grid_line_positions[g]
         <= result.vertical_grid_line_positions[g + 1]

\* C15: along a chain of vertical grid lines linked only by Lock- or
\* Float-after constraints the resolved x-coordinates do not decrease.
AfterChainOrdered ==
    (Succeeded /\ IsAfterChain) => ChainOrdered

\* C15 as it holds: the same when no distance of the chain is negative.
AfterChainOrderedForDistancesNotNegative ==
    (Succeeded /\ IsAfterChain /\ ChainDistancesNotNegative) => ChainOrdered

\* A successful result for a chain with a Lock and a Float link of positive
\* distance whose leading edge was pushed by AlignEnd.
PositiveChainEngraved ==
    /\ Succeeded
    /\ IsAfterChain
    /\ system.justification = "AlignEnd"
    /\ system.vertical_grid_lines[2].constraints[1]
         = RefBy("LockAfterVerticalGridLineByDistance", 0, 3)
    /\ system.vertical_grid_lines[3].constraints[1]
         = RefBy("FloatAfterVerticalGridLineByDistance", 1, 3)
    /\ result.vertical_grid_line_positions[1] > 0
    /\ result.vertical_grid_line_positions[1] < result.vertical_grid_line_positions[2]
    /\ result.vertical_grid_line_positions[2] < result.vertical_grid_line_positions[3]

\* Every pair of the collision list has a block that may move up or down.
OnlyVerticalPairs ==
    \A i \in 1..Len(collisions) :
       ResolvesVertically(system.blocks, collisions[i][1], collisions[i][2])

\* C16: a collision between two blocks of which one may move up or down is
\* no error: its resolution adds nothing to the solver and returns nothing,
\* engrave goes on to the next pair or to justification, and when every
\* pair is of that kind engrave returns an EngravedSystem.
VerticalCollisionIsNoError ==
    [][/\ (pc = "resolve"
             /\ ResolvesVertically(system.blocks, collisions[resolved + 1][1],
                                   collisions[resolved + 1][2])) =>
            /\ solver' = solver
            /\ result' = Pending
            /\ pc' \in {"resolve", "justify"}
       /\ (pc' = "returned" /\ collisions # <<>> /\ OnlyVerticalPairs) =>
            result'.kind = "Ok"]_vars

\* engrave has returned an EngravedSystem under AlignEnd although the two
\* blocks collide, the second of them being allowed to move down.
VerticalCollisionEngraved ==
    /\ Succeeded
    /\ system.justification = "AlignEnd"
    /\ collisions # <<>>
    /\ OnlyVerticalPairs
    /\ system.blocks[2].can_move_down_to_avoid_vertical_collision
    /\ ~system.blocks[1].can_move_up_to_avoid_vertical_collision
    /\ result.block_start_positions[1] = result.block_start_positions[2]

\* What the step engrave is about to take computes from the layout sys and
\* the other variables: the constraint it adds or the error it returns,
\* where it goes on, and what it passes to the solver and to detection.
StepOf(sys) ==
    CASE pc = "origin" ->
           <<origin_top_edge(sys, solver),
             origin_leading_edge(sys, origin_aligned_start(sys, solver)),
             AfterHorizontal(sys, 0, 0)>>
      [] pc = "horizontal_grid_lines" ->
           <<add_horizontal_grid_line_constraint_to_solver(sys, solver, index,
               sys.horizontal_grid_lines[index + 1].constraints[cindex + 1]),
             AfterHorizontal(sys, index, cindex + 1)>>
      [] pc = "vertical_grid_lines" ->
           <<add_vertical_grid_line_constraint_to_solver(sys, solver, index,
               sys.vertical_grid_lines[index + 1].constraints[cindex + 1]),
             AfterVertical(sys, index, cindex + 1)>>
      [] pc = "block" ->
           <<sys.blocks[index + 1],
             AddToSolver(sys, solver, FixedWidthExpr(index, sys.blocks[index + 1]),
                         "AddConstraintErrorOnBlock", index),
             AddToSolver(sys, solver, FixedHeightExpr(index, sys.blocks[index + 1]),
                         "AddConstraintErrorOnBlock", index),
             AfterBlock(sys, index, 0)>>
      [] pc = "block_constraints" ->
           <<add_block_constraint_to_solver(sys, solver, index, sys.blocks[index + 1],
               sys.blocks[index + 1].constraints[cindex + 1]),
             AfterBlock(sys, index, cindex + 1)>>
      [] pc = "detect" ->
           <<NumUnknowns(sys), sys.blocks, NumH(sys), NumV(sys)>>
      [] pc = "resolve" ->
           <<ResolvesVertically(sys.blocks, collisions[resolved + 1][1],
                                collisions[resolved + 1][2]),
             resolve_colliding_blocks_horizontally(sys, solver,
               collisions[resolved + 1][1], collisions[resolved + 1][2])>>
      [] pc = "justify" ->
           <<NumUnknowns(sys), block_positions(sys, values),
             IF sys.justification = "Justified" /\ total_rhythmic_spacing = 0
             THEN <<>>
             ELSE <<apply_justification_to_solver(sys, solver,
                      MaxOrZero(block_positions(sys, values).end),
                      total_rhythmic_spacing, spacing_blocks)>> >>
      [] pc = "read_back" ->
           <<NumUnknowns(sys), block_positions(sys, values),
             horizontal_grid_line_positions(sys, values),
             vertical_grid_line_positions(sys, values)>>
      [] OTHER -> <<>>

\* The drawables of the blocks of a layer, for the layout sys at the values
\* of the result.
BlockDrawables(sys, layer) ==
    create_engravables_from_blocks_in_layer(sys, layer, block_positions(sys, values))

\* C17: the debug flags do not reach the solved coordinates.  Whatever the
\* four flags are set to, every step computes the same from the layout, and
\* the result has the same grid-line coordinates, block edges, width and
\* height; the guides for grid lines and block outlines come in the
\* background layer after its block drawables, and the three flags that
\* draw them leave the foreground and the midground as they are.
DebugFlagsDoNotInterfere ==
    \A flags \in DebugFlagSettings :
       LET twin == WithDebugFlags(system, flags)
           other == EngravedSystem(twin, values)
           blocks_behind == BlockDrawables(twin, "Background")
       IN  /\ StepOf(twin) = StepOf(system)
           /\ Succeeded =>
                /\ other.horizontal_grid_line_positions
                     = result.horizontal_grid_line_positions
                /\ other.vertical_grid_line_positions
                     = result.vertical_grid_line_positions
                /\ other.block_top_positions = result.block_top_positions
                /\ other.block_bottom_positions = result.block_bottom_positions
                /\ other.block_start_positions = result.block_start_positions
                /\ other.block_end_positions = result.block_end_positions
                /\ other.width = result.width
                /\ other.height = result.height
                /\ flags[3] = system.debug_do_show_rhythmic_spacing =>
                     /\ other.foreground = result.foreground
                     /\ other.midground = result.midground
                /\ \A i \in 1..Len(other.foreground) : other.foreground[i].kind = "block"
                /\ \A i \in 1..Len(other.midground) : other.midground[i].kind = "block"
                /\ Len(other.background) >= Len(blocks_behind)
                /\ SubSeq(other.background, 1, Len(blocks_behind)) = blocks_behind
                /\ \A i \in (Len(blocks_behind) + 1)..Len(other.background) :
                      other.background[i].kind # "block"
                /\ (~flags[1] /\ ~flags[2] /\ ~flags[4]) =>
                      other.background = blocks_behind

\* A successful result with guides for the grid lines and the block
\* outlines after the block drawables of the background, and none in the
\* foreground, for a layout that draws blocks in all three layers.
GuidesBehindBlocks ==
    /\ Succeeded
    /\ system.debug_do_draw_horizontal_grid_lines
    /\ system.debug_do_draw_vertical_grid_lines
    /\ system.debug_do_draw_block_outlines
    /\ ~system.debug_do_show_rhythmic_spacing
    /\ result.foreground # <<>>
    /\ result.midground # <<>>
    /\ BlockDrawables(system, "Background") # <<>>
    /\ Len(result.background)
         = Len(BlockDrawables(system, "Background")) + NumH(system) + NumV(system)
             + 4 * NumB(system)

\* The sequence of a layer in the result.
LayerOf(layer) ==
    CASE layer = "Foreground" -> result.foreground
      [] layer = "Midground" -> result.midground
      [] layer = "Background" -> result.background

\* The positions of the sequence of a layer that hold a block.
BlockEntries(layer) ==
    {i \in 1..Len(LayerOf(layer)) : LayerOf(layer)[i].kind = "block"}

\* Block b (0-based) is drawn: it is visible, and it is no spacing block
\* unless rhythmic spacing is shown.
IsDrawn(b) ==
    /\ system.blocks[b + 1].is_visible
    /\ system.debug_do_show_rhythmic_spacing \/ ~system.blocks[b + 1].is_spacing_block

\* C18: in the result a block is in the sequence of its own layer, once and
\* in input order, exactly if it is visible and is no spacing block or
\* rhythmic spacing is shown; it is in the sequence of no other layer.
BlocksDrawnInTheirLayer ==
    Succeeded =>
      \A layer \in Layers :
         /\ {LayerOf(layer)[i].index : i \in BlockEntries(layer)}
              = {b \in 0..(NumB(system) - 1) :
                   system.blocks[b + 1].layer = layer /\ IsDrawn(b)}
         /\ \A i, j \in BlockEntries(layer) :
               i < j => LayerOf(layer)[i].index < LayerOf(layer)[j].index

\* A successful result that shows rhythmic spacing, for a layout with an
\* invisible block and a visible spacing block, which is drawn in its layer.
SpacingBlockShown ==
    /\ Succeeded
    /\ system.debug_do_show_rhythmic_spacing
    /\ ~system.debug_do_draw_block_outlines
    /\ \E b \in 1..NumB(system) : ~system.blocks[b].is_visible
    /\ \E b \in 1..NumB(system) :
          /\ system.blocks[b].is_spacing_block
          /\ system.blocks[b].layer = "Midground"
          /\ \E i \in 1..Len(result.midground) : result.midground[i].index = b - 1
    /\ Len(result.foreground) >= 2

\* The pair the horizontal resolver handles next.
NextPair == collisions[resolved + 1]

\* The block of the next pair whose solved start position is the greater.
LaterStarting(val) ==
    IF val[StartVar(system, NextPair[1])] > val[StartVar(system, NextPair[2])]
    THEN NextPair[1] ELSE NextPair[2]

\* C19: for a colliding pair in which neither block may move vertically and
\* whose solved start positions differ, the horizontal resolver adds one
\* relation, and that relation constrains the start of the block whose
\* solved start position is the greater, whatever the block indices are.
SeparationOnLaterStartingBlock ==
    [][(/\ pc = "resolve"
        /\ ~ResolvesVertically(system.blocks, NextPair[1], NextPair[2])
        /\ get_values(system, solver)[StartVar(system, NextPair[1])]
             # get_values(system, solver)[StartVar(system, NextPair[2])])
       => /\ Len(solver') = Len(solver) + 1
          /\ solver'[Len(solver')].k[StartVar(system, LaterStarting(get_values(system, solver)))] = 1]_vars

\* The first pair has been resolved horizontally and the added relation
\* constrains the start of the block that was solved to start earlier, which
\* is the block of greater index.
SeparationOnEarlierStartingBlock ==
    /\ pc \in {"resolve", "justify"}
    /\ resolved = 1
    /\ ~ResolvesVertically(system.blocks, collisions[1][1], collisions[1][2])
    /\ \E x \in {collisions[1][1], collisions[1][2]} :
         \E y \in {collisions[1][1], collisions[1][2]} :
           /\ x > y
           /\ values[StartVar(system, x)] < values[StartVar(system, y)]
           /\ solver[Len(solver)].k[StartVar(system, x)] = 1
           /\ solver[Len(solver)].k[EndVar(system, y)] = -1

\* The two blocks of the report at position i of the collision list.
ReportedBlocks(i) == {collisions[i][1], collisions[i][2]}

\* C20: the collision list reports no two blocks twice, in either order,
\* and the resolver has handled no more reports than there are colliding
\* pairs of blocks.
EachPairReportedOnce ==
    /\ \A i \in 1..Len(collisions) : \A j \in 1..Len(collisions) :
         i < j => ReportedBlocks(i) # ReportedBlocks(j)
    /\ resolved <= Cardinality({ReportedBlocks(i) : i \in 1..Len(collisions)})

\* Two blocks were reported in both orders, both reports were resolved
\* horizontally, and the solver now holds two separating relations for the
\* same two blocks.
PairResolvedTwice ==
    /\ pc = "justify"
    /\ resolved = 2
    /\ Len(collisions) = 2
    /\ collisions[2] = <<collisions[1][2], collisions[1][1]>>
    /\ ~ResolvesVertically(system.blocks, collisions[1][1], collisions[1][2])
    /\ Len(solver) >= 2
    /\ solver[Len(solver)].k = solver[Len(solver) - 1].k
    /\ \E x \in ReportedBlocks(1) : \E y \in ReportedBlocks(1) :
         /\ x # y
         /\ solver[Len(solver)].k[StartVar(system, x)] = 1
         /\ solver[Len(solver)].k[EndVar(system, y)] = -1

\* What the scan of the horizontal plane first returns on the values read
\* by detection.
HorizontalScan(replaces) ==
    detect_colliding_blocks_horizontally(system.blocks,
      plane_intervals(system.blocks, block_positions(system, values), 0,
                      [x |-> <<>>, y |-> <<>>], replaces),
      block_positions(system, values))

\* What the scan of the vertical plane first returns on the same values.
VerticalScan(replaces) ==
    detect_colliding_blocks_vertically(system.blocks,
      plane_intervals(system.blocks, block_positions(system, values), 0,
                      [x |-> <<>>, y |-> <<>>], replaces),
      block_positions(system, values))

\* C21: on every set of blocks and solved positions the scan of the
\* horizontal plane first and the scan of the vertical plane first both
\* return, and return the same set of pairs.
ScansReturnTheSamePairs ==
    pc \in {"detected", "panicked"} =>
    \A replaces \in BOOLEAN :
       /\ HorizontalScan(replaces).panicked = VerticalScan(replaces).panicked
       /\ SeqRange(HorizontalScan(replaces).collisions)
            = SeqRange(VerticalScan(replaces).collisions)

\* When both scans return, they return the same set of pairs.
ReturningScansAgree ==
    \A replaces \in BOOLEAN :
       (~HorizontalScan(replaces).panicked /\ ~VerticalScan(replaces).panicked)
         => SeqRange(HorizontalScan(replaces).collisions)
              = SeqRange(VerticalScan(replaces).collisions)

\* Detection has panicked on a layout for which the scan of the other plane
\* first returns a list.
OneScanOnlyPanics ==
    /\ pc = "panicked"
    /\ \E replaces \in BOOLEAN :
         HorizontalScan(replaces).panicked # VerticalScan(replaces).panicked

\* The collidable blocks whose solved extent is zero or negative on an axis.
DegenerateBlocks ==
    {a \in 0..(NumB(system) - 1) :
       system.blocks[a + 1].is_collidable /\ ~PositiveExtent(a)}

\* C22: when a collidable block has zero or negative extent on an axis,
\* detection still returns a list, and no pair of the list holds such a
\* block as its first or its second element.
DegenerateBlocksSkipped ==
    (pc \in {"detected", "panicked"} /\ DegenerateBlocks # {}) =>
       /\ Detected
       /\ \A p \in CollisionPairs :
            p[1] \notin DegenerateBlocks /\ p[2] \notin DegenerateBlocks

\* Detection has panicked on the query made for a collidable block of zero
\* or negative extent, while the other block is collidable and of positive
\* extent.
DegenerateBlockPanics ==
    /\ pc = "panicked"
    /\ NumB(system) = 2
    /\ Cardinality(DegenerateBlocks) = 1
    /\ \A a \in 0..1 : system.blocks[a + 1].is_collidable

\* The position of a phase of engrave in the order of its code.
PhaseRank(p) ==
    CASE p = "origin" -> 0
      [] p = "horizontal_grid_lines" -> 1
      [] p = "vertical_grid_lines" -> 2
      [] p \in {"block", "block_constraints"} -> 3
      [] p = "detect" -> 4
      [] p = "resolve" -> 5
      [] p = "justify" -> 6
      [] p = "read_back" -> 7
      [] OTHER -> 8

\* C23: the phases of one invocation run in the order of the code;
\* detection, justification and the read-back run at most once; detection
\* reads the solved positions and only detection writes the collision list;
\* the resolver handles the pairs of that list one by one and all of them
\* before justification; the engraved width is the largest solved block end
\* before justification; a successful result is what the read-back returns.
PhasesInOrder ==
    [][/\ PhaseRank(pc) <= PhaseRank(pc')
       /\ pc \in {"detect", "justify", "read_back"} => PhaseRank(pc) < PhaseRank(pc')
       /\ PhaseRank(pc) < 4 => collisions' = <<>> /\ resolved' = 0
       /\ pc = "detect" => solver' = solver /\ values' = get_values(system, solver)
       /\ pc # "detect" => collisions' = collisions
       /\ pc = "resolve" => resolved' = resolved + 1
       /\ pc' = "justify" => resolved' = Len(collisions')
       /\ pc = "justify" =>
            engraved_system_width'
              = MaxOrZero(block_positions(system, get_values(system, solver)).end)
       /\ (pc' = "returned" /\ result'.kind = "Ok") =>
            /\ pc = "read_back"
            /\ result' = EngravedSystem(system, get_values(system, solver))]_vars

\* A successful result after two pairs were detected and resolved and the
\* layout was aligned to its end.
EveryPhaseRun ==
    /\ Returned /\ Succeeded
    /\ Len(collisions) = 2
    /\ resolved = 2
    /\ system.justification = "AlignEnd"
    /\ engraved_system_width > 0

\* The kinds named Lock, of grid lines and of blocks.
LockKinds ==
    {"LockAboveHorizontalGridLineByDistance", "LockBelowHorizontalGridLineByDistance",
     "LockBeforeVerticalGridLineByDistance", "LockAfterVerticalGridLineByDistance",
     "LockTopToHorizontalGridLine", "LockBottomToHorizontalGridLine",
     "LockStartToVerticalGridLine", "LockEndToVerticalGridLine",
     "LockVerticalCenterHalfwayBetweenHorizontalGridLines",
     "LockVerticalCenterToHorizontalGridLine",
     "LockHorizontalCenterHalfwayBetweenVerticalGridLines",
     "LockHorizontalCenterToVerticalGridLine",
     "LockStartToBlockStart", "LockEndToBlockEnd", "LockTopToBlockTop",
     "LockBottomToBlockBottom", "LockHorizontalCenterBetweenBlocks",
     "LockVerticalCenterBetweenBlocks", "LockHorizontalCenterToBlockCenter",
     "LockVerticalCenterToBlockCenter", "LockAfterBlockByDistance",
     "LockBeforeBlockByDistance", "LockAboveBlockByDistance",
     "LockBeneathBlockByDistance", "LockTopToBlockCenter", "LockBottomToBlockCenter"}

\* The kinds named Float that bound by a distance or before/after a line.
FloatKinds ==
    {"FloatAboveHorizontalGridLineByDistance", "FloatBelowHorizontalGridLineByDistance",
     "FloatBeforeVerticalGridLineByDistance", "FloatAfterVerticalGridLineByDistance",
     "FloatTopAfterHorizontalGridLine", "FloatBottomBeforeHorizontalGridLine",
     "FloatStartAfterVerticalGridLine", "FloatEndBeforeVerticalGridLine",
     "FloatAfterBlockByDistance", "FloatBeforeBlockByDistance",
     "FloatAboveBlockByDistance", "FloatBeneathBlockByDistance"}

PushKinds ==
    {"PushHorizontalGridLineDownToAccommodateBlockHeight",
     "PushVerticalGridLineSidewaysToAccommodateBlockWidth"}

\* The kind of the authored constraint the next step translates, if any.
CurrentKind ==
    CASE pc = "horizontal_grid_lines" ->
           system.horizontal_grid_lines[index + 1].constraints[cindex + 1].kind
      [] pc = "vertical_grid_lines" ->
           system.vertical_grid_lines[index + 1].constraints[cindex + 1].kind
      [] pc = "block_constraints" ->
           system.blocks[index + 1].constraints[cindex + 1].kind
      [] OTHER -> "none"

\* C24: the relation a step adds for an authored constraint is an equality
\* at STRONG strength for every Lock kind, a one-sided inequality at WEAK
\* strength for every Float kind by distance or before/after, and an
\* inequality at STRONG strength for the two Push kinds.
StrengthFollowsKind ==
    [][Len(solver') = Len(solver) + 1 =>
         /\ CurrentKind \in LockKinds =>
              /\ solver'[Len(solver')].rel = "EQ"
              /\ solver'[Len(solver')].strength = "STRONG"
         /\ CurrentKind \in FloatKinds =>
              /\ solver'[Len(solver')].rel \in {"GE", "LE"}
              /\ solver'[Len(solver')].strength = "WEAK"
         /\ CurrentKind \in PushKinds =>
              /\ solver'[Len(solver')].rel \in {"GE", "LE"}
              /\ solver'[Len(solver')].strength = "STRONG"]_vars

\* Every kind but the horizontal halfway centering is translated as C24
\* says.
StrengthFollowsKindButHalfway ==
    [][(Len(solver') = Len(solver) + 1
        /\ CurrentKind # "LockHorizontalCenterHalfwayBetweenVerticalGridLines") =>
         /\ CurrentKind \in LockKinds =>
              /\ solver'[Len(solver')].rel = "EQ"
              /\ solver'[Len(solver')].strength = "STRONG"
         /\ CurrentKind \in FloatKinds =>
              /\ solver'[Len(solver')].rel \in {"GE", "LE"}
              /\ solver'[Len(solver')].strength = "WEAK"
         /\ CurrentKind \in PushKinds =>
              /\ solver'[Len(solver')].rel \in {"GE", "LE"}
              /\ solver'[Len(solver')].strength = "STRONG"]_vars

\* A layout whose first block constraint is the horizontal halfway
\* centering has been engraved, and the solver holds an inequality at
\* STRONG strength for it.
HalfwayLockIsInequality ==
    /\ Returned /\ Succeeded
    /\ \E b \in 1..NumB(system) :
         /\ system.blocks[b].constraints # <<>>
         /\ system.blocks[b].constraints[1].kind
              = "LockHorizontalCenterHalfwayBetweenVerticalGridLines"
    /\ \E i \in 1..Len(solver) :
         solver[i].rel = "GE" /\ solver[i].strength = "STRONG"

\* C25: the relation a step adds for an authored constraint of a block does
\* not involve the end unknown of that block when the block is of fixed
\* width, nor its bottom unknown when the block is of fixed height.
TrailingEdgeNeverConstrained ==
    [][(pc = "block_constraints" /\ Len(solver') = Len(solver) + 1) =>
         /\ system.blocks[index + 1].is_fixed_width =>
              solver'[Len(solver')].k[EndVar(system, index)] = 0
         /\ system.blocks[index + 1].is_fixed_height =>
              solver'[Len(solver')].k[BottomVar(system, index)] = 0]_vars

\* The kinds whose relation is rewritten against the leading edge of a
\* block of fixed size.
RedirectedKinds ==
    {"FloatBottomBeforeHorizontalGridLine", "LockBottomToHorizontalGridLine",
     "FloatEndBeforeVerticalGridLine", "LockEndToVerticalGridLine"}

\* The four kinds that bind the trailing edge to a grid line are rewritten.
GridLineKindsRedirected ==
    [][(/\ pc = "block_constraints"
        /\ Len(solver') = Len(solver) + 1
        /\ CurrentKind \in RedirectedKinds) =>
         /\ system.blocks[index + 1].is_fixed_width =>
              solver'[Len(solver')].k[EndVar(system, index)] = 0
         /\ system.blocks[index + 1].is_fixed_height =>
              solver'[Len(solver')].k[BottomVar(system, index)] = 0]_vars

\* A layout whose fixed-size block 0 is locked by LockEndToBlockEnd has been
\* engraved, and the solver holds a relation on the end unknown of block 0
\* that is not its sizing relation.
EndOfFixedBlockConstrained ==
    /\ Returned /\ Succeeded
    /\ system.blocks[1].is_fixed_width
    /\ system.blocks[1].constraints # <<>>
    /\ system.blocks[1].constraints[1].kind = "LockEndToBlockEnd"
    /\ \E i \in 1..Len(solver) :
         /\ solver[i].k[EndVar(system, 0)] # 0
         /\ solver[i].k[StartVar(system, 0)] = 0

\* The blocks whose only authored constraint is of the given kind.
OnlyConstrainedBy(kind) ==
    {b \in 1..NumB(system) :
       /\ Len(system.blocks[b].constraints) = 1
       /\ system.blocks[b].constraints[1].kind = kind}

\* C26: in a successful result a block whose only authored constraint is
\* LockEndToVerticalGridLine(g) ends at grid line g minus its end padding,
\* and one whose only constraint is LockBottomToHorizontalGridLine(g) has
\* its bottom at grid line g minus its bottom padding, be the block of
\* fixed or of variable size.
RedirectionKeepsTrailingEdge ==
    Succeeded =>
      /\ \A b \in OnlyConstrainedBy("LockEndToVerticalGridLine") :
           result.block_end_positions[b]
             = result.vertical_grid_line_positions[system.blocks[b].constraints[1].g + 1]
                 - system.blocks[b].end_padding
      /\ \A b \in OnlyConstrainedBy("LockBottomToHorizontalGridLine") :
           result.block_bottom_positions[b]
             = result.horizontal_grid_line_positions[system.blocks[b].constraints[1].g + 1]
                 - system.blocks[b].bottom_padding

\* The same for the blocks of variable size only.
VariableSizeKeepsTrailingEdge ==
    Succeeded =>
      /\ \A b \in OnlyConstrainedBy("LockEndToVerticalGridLine") :
           ~system.blocks[b].is_fixed_width =>
             result.block_end_positions[b]
               = result.vertical_grid_line_positions[system.blocks[b].constraints[1].g + 1]
                   - system.blocks[b].end_padding
      /\ \A b \in OnlyConstrainedBy("LockBottomToHorizontalGridLine") :
           ~system.blocks[b].is_fixed_height =>
             result.block_bottom_positions[b]
               = result.horizontal_grid_line_positions[system.blocks[b].constraints[1].g + 1]
                   - system.blocks[b].bottom_padding

\* A block of fixed width with a start padding, locked by its end to a grid
\* line only, was engraved with its end past that grid line by the start
\* padding.
FixedBlockEndsPastGridLine ==
    /\ Returned /\ Succeeded
    /\ \E b \in OnlyConstrainedBy("LockEndToVerticalGridLine") :
         /\ system.blocks[b].is_fixed_width
         /\ system.blocks[b].start_padding > 0
         /\ result.block_end_positions[b]
              = result.vertical_grid_line_positions[system.blocks[b].constraints[1].g + 1]
                  + system.blocks[b].start_padding

\* C27: under Justified with a spacing block the ratio is a number, and in
\* a successful result no spacing block ends before it starts.
JustifiedRatioNotNegative ==
    /\ pc # "not_a_number"
    /\ (Succeeded /\ system.justification = "Justified") =>
         \A b \in SpacingBlocksOf(system) :
            result.block_start_positions[b + 1] <= result.block_end_positions[b + 1]

\* The same when the total rhythmic spacing is positive and the target
\* width is not smaller than the engraved width by more than it.
JustifiedRatioNotNegativeInRange ==
    (/\ Succeeded /\ system.justification = "Justified"
     /\ total_rhythmic_spacing > 0
     /\ total_rhythmic_spacing + system.target_system_width >= engraved_system_width) =>
       \A b \in SpacingBlocksOf(system) :
          result.block_start_positions[b + 1] <= result.block_end_positions[b + 1]

\* A successful Justified result in which a spacing block ends before it
\* starts.
SpacingBlockTurnedOver ==
    /\ Returned /\ Succeeded
    /\ system.justification = "Justified"
    /\ total_rhythmic_spacing + system.target_system_width < engraved_system_width
    /\ \E b \in SpacingBlocksOf(system) :
         result.block_end_positions[b + 1] < result.block_start_positions[b + 1]

\* The unknowns with a coefficient in relation cn.
Involved(cn) == {u \in 1..Len(cn.k) : cn.k[u] # 0}

\* No STRONG or REQUIRED relation of the solver binds the start or the end
\* of block moved, but relations between its own start and end (its sizing)
\* and relations between its start and the end of block other (the
\* separation).
StartBoundBySeparationOnly(moved, other) ==
    \A j \in 1..Len(solver) :
       (/\ solver[j].strength \in {"STRONG", "REQUIRED"}
        /\ Involved(solver[j]) \cap {StartVar(system, moved), EndVar(system, moved)} # {})
         => \/ Involved(solver[j]) = {StartVar(system, moved), EndVar(system, moved)}
            \/ Involved(solver[j]) = {StartVar(system, moved), EndVar(system, other)}

\* The pairs of the list that went to the horizontal resolver, as
\* <<moved, other>>: the moved block is the one of greater index.
HorizontallyResolvedPairs ==
    {<<Max2(collisions[i][1], collisions[i][2]), -Max2(-collisions[i][1], -collisions[i][2])>> :
       i \in {i \in 1..Len(collisions) :
                 ~ResolvesVertically(system.blocks, collisions[i][1], collisions[i][2])}}

\* C28: in a successful result, under every justification, a block moved
\* by the horizontal resolver whose start no other STRONG or REQUIRED
\* relation binds starts 0.25 after the end of the other block of the pair.
SeparatedByQuarterSpace ==
    Succeeded =>
      \A p \in HorizontallyResolvedPairs :
         StartBoundBySeparationOnly(p[1], p[2]) =>
           result.block_start_positions[p[1] + 1]
             = result.block_end_positions[p[2] + 1] + ResolutionDistance

\* A successful Justified result in which the other block of a resolved
\* pair is a spacing block that justification has widened, and the moved
\* block, free of other relations, has followed its end.
MovedBlockFollowsJustifiedBlock ==
    /\ Returned /\ Succeeded
    /\ system.justification = "Justified"
    /\ \E p \in HorizontallyResolvedPairs :
         /\ StartBoundBySeparationOnly(p[1], p[2])
         /\ system.blocks[p[2] + 1].is_spacing_block
         /\ result.block_end_positions[p[2] + 1] - result.block_start_positions[p[2] + 1]
              > system.blocks[p[2] + 1].fixed_width
         /\ result.block_start_positions[p[1] + 1]
              = result.block_end_positions[p[2] + 1] + ResolutionDistance

\* C29: the step that defines the origin returns no error for a top-edge
\* or leading-edge index that is out of range: engrave goes on, and the
\* solver holds no REQUIRED relation for that edge.
OriginOutOfRangeSkipped ==
    [][(pc = "origin" /\ ~OriginInRange) =>
         /\ result' = result
         /\ pc' # "returned"
         /\ system.top_edge >= NumH(system) =>
              \A j \in 1..Len(solver') :
                 solver'[j].strength = "REQUIRED" =>
                    Involved(solver'[j]) \cap (1..NumH(system)) = {}
         /\ system.leading_edge >= NumV(system) =>
              \A j \in 1..Len(solver') :
                 solver'[j].strength = "REQUIRED" =>
                    AlignedStartVar(system) \notin Involved(solver'[j])]_vars

\* A layout whose top-edge and leading-edge indexes are both out of range
\* has been engraved.
UnanchoredLayoutEngraved ==
    /\ Returned /\ Succeeded
    /\ system.top_edge >= NumH(system)
    /\ system.leading_edge >= NumV(system)

\* C30: no pair of the list detect_colliding_blocks returns consists of two
\* blocks without a source spine item, whatever their ranges.
UntaggedBlocksNeverCollide ==
    \A p \in CollisionPairs : Source(p[1]) # 0 \/ Source(p[2]) # 0

\* Detection has returned an empty list for two collidable blocks without a
\* source that have positive extent and overlap on both axes.
UntaggedOverlapNotReported ==
    /\ Detected
    /\ collisions = <<>>
    /\ NumB(system) = 2
    /\ system.blocks[1].is_collidable /\ system.blocks[2].is_collidable
    /\ Source(0) = 0 /\ Source(1) = 0
    /\ PositiveExtent(0) /\ PositiveExtent(1) /\ Overlap(0, 1)

====
